---- MODULE Spec2Model ----
(***************************************************************************)
(* Model of the webhook relay worker: the Discord delivery primitive       *)
(* (src/src/discord.js, postToDiscord) and the deduplicating polls         *)
(* (src/src/rss.js, handleRSS; src/src/minecraft.js, handleMinecraftNews)  *)
(* over the key-value store (src/src/kvutils.js), the cron trigger that    *)
(* runs both polls (src/src/index.js, scheduled) and the GitHub webhook    *)
(* (src/src/github.js, handleGitHubWebhook and its handlers).              *)
(*                                                                         *)
(* Strings the code inspects are sequences of tokens, so that includes,    *)
(* startsWith and parseInt are computed, not assumed.                      *)
(***************************************************************************)
EXTENDS Integers, Sequences, FiniteSets, TLC

(***************************************************************************)
(* Bounds of the model.                                                    *)
(***************************************************************************)
\* largest maxRetries argument explored (the default of the code is 3)
MaxRetriesBound == 3

\* longest source document explored, in items
MaxFeedLen == 3

\* number of polls one behaviour runs one after the other
MaxPolls == 2

(***************************************************************************)
(* Strings as token sequences.                                             *)
(***************************************************************************)
\* String.prototype.includes
Includes(s, sub) ==
    \E i \in 1..(Len(s) - Len(sub) + 1) : SubSeq(s, i, i + Len(sub) - 1) = sub

\* String.prototype.startsWith
StartsWith(s, p) ==
    /\ Len(s) >= Len(p)
    /\ SubSeq(s, 1, Len(p)) = p

\* 'https://discord.com/api/webhooks/'
WebhookPrefix == <<"https://", "discord.com/api/webhooks/">>

\* 'PLACEHOLDER'
PlaceholderMarker == <<"PLACE", "HOLDER">>

\* A webhookUrl argument: undefined, or a string.
UndefinedUrl == [defined |-> FALSE, text |-> <<>>]
Url(text) == [defined |-> TRUE, text |-> text]

\* The destinations tried: the ones of the repository's tests (README
\* "should reject invalid webhook URLs"), a missing one, and near misses.
SampleUrls ==
    { UndefinedUrl,
      Url(<<>>),
      Url(WebhookPrefix \o <<"123/token">>),
      Url(WebhookPrefix \o <<"PLACE", "123/token">>),
      Url(WebhookPrefix \o <<"PLACE", "HOLDER", "/token">>),
      Url(WebhookPrefix \o <<"PLACE", "HOLDER", "_ID/", "PLACE", "HOLDER", "_TOKEN">>),
      Url(<<"https://", "example.com/webhook">>),
      Url(<<"not-a-url">>),
      Url(<<"http://", "discord.com/api/webhooks/", "123/token">>),
      Url(<<"x", "https://", "discord.com/api/webhooks/", "123/token">>) }

\* the placeholder check is missing
InvalidWebhookUrlNoMarker(url) ==
    \/ ~url.defined
    \/ url.text = <<>>
    \/ ~StartsWith(url.text, WebhookPrefix)

\* The condition of the if at discord.js:4 (TRUE = the URL is rejected).
InvalidWebhookUrl(url) ==
    \/ ~url.defined
    \/ url.text = <<>>
    \/ Includes(url.text, PlaceholderMarker)
    \/ ~StartsWith(url.text, WebhookPrefix)

(***************************************************************************)
(* Numbers out of header strings.                                          *)
(***************************************************************************)
Digits ==
    <<"0", "1", "2", "3", "4", "5", "6", "7", "8", "9",
      "a", "b", "c", "d", "e", "f">>

UpperDigits ==
    <<"0", "1", "2", "3", "4", "5", "6", "7", "8", "9",
      "A", "B", "C", "D", "E", "F">>

\* c is a digit of the radix (10 or 16)
IsDigit(c, radix) ==
    \E i \in 1..radix : Digits[i] = c \/ UpperDigits[i] = c

DigitValue(c) ==
    (CHOOSE i \in 1..Len(Digits) : Digits[i] = c \/ UpperDigits[i] = c) - 1

\* A Number of the language: an integer, or Not-a-Number, which is none.
Num(n) == [nan |-> FALSE, value |-> n]
NaN == [nan |-> TRUE, value |-> 0]

\* StrWhiteSpaceChar of the language: the white space characters (tab,
\* vertical tab, form feed, the byte order mark and every space separator)
\* and the line terminators.  A character that has no escape in a string of
\* the model is written by its code point.
WhiteSpace ==
    { "\t", "U+000B", "\f", " ", "U+00A0", "U+1680", "U+2000", "U+2001",
      "U+2002", "U+2003", "U+2004", "U+2005", "U+2006", "U+2007", "U+2008",
      "U+2009", "U+200A", "U+202F", "U+205F", "U+3000", "U+FEFF",
      "\n", "\r", "U+2028", "U+2029" }

\* the string without its leading white space
RECURSIVE TrimStart(_)
TrimStart(s) ==
    IF s # <<>> /\ Head(s) \in WhiteSpace THEN TrimStart(Tail(s)) ELSE s

\* the value of the longest prefix of digits of the radix
RECURSIVE ParseDigits(_, _, _)
ParseDigits(s, radix, acc) ==
    IF s = <<>> \/ ~IsDigit(Head(s), radix)
    THEN acc
    ELSE ParseDigits(Tail(s), radix, radix * acc + DigitValue(Head(s)))

\* parseInt(s) without a radix: leading white space is skipped, one sign is
\* read, a prefix 0x or 0X selects base 16 and base 10 is used otherwise;
\* the value is that of the longest prefix of digits, NaN when that prefix
\* is empty.
parseInt(s) ==
    LET trimmed  == TrimStart(s)
        signed   == trimmed # <<>> /\ Head(trimmed) \in {"+", "-"}
        negative == trimmed # <<>> /\ Head(trimmed) = "-"
        unsigned == IF signed THEN Tail(trimmed) ELSE trimmed
        hex      == /\ Len(unsigned) >= 2
                    /\ unsigned[1] = "0"
                    /\ unsigned[2] \in {"x", "X"}
        radix    == IF hex THEN 16 ELSE 10
        digits   == IF hex THEN Tail(Tail(unsigned)) ELSE unsigned
    IN  IF digits = <<>> \/ ~IsDigit(Head(digits), radix)
        THEN NaN
        ELSE IF negative
             THEN Num(0 - ParseDigits(digits, radix, 0))
             ELSE Num(ParseDigits(digits, radix, 0))

\* discord.js:35: the product of two Numbers; NaN times a Number is NaN
Times(a, b) == IF a.nan \/ b.nan THEN NaN ELSE Num(a.value * b.value)

\* the first retry waits one second
ExponentialBackoffFromOne(n) == (2 ^ (n - 1)) * 1000

\* discord.js:35, 60, 100: Math.pow(2, attempt) * 1000
ExponentialBackoff(n) == (2 ^ n) * 1000

\* A header lookup answers null (here <<>>) or one string (here <<s>>).
NoHeader == <<>>
Header(s) == <<s>>

\* discord.js:34-35: the delay before the retry of a 429.
RateLimitDelay(retryAfter, n) ==
    IF retryAfter # NoHeader /\ retryAfter[1] # <<>>
    THEN Times(parseInt(retryAfter[1]), Num(1000))
    ELSE Num(ExponentialBackoff(n))

(***************************************************************************)
(* What one fetch of the webhook can come back with.                       *)
(***************************************************************************)
\* the values of the retry-after header: none, the empty string, a decimal
\* numeral, a fraction, a word, a hexadecimal numeral, a negative numeral,
\* a numeral after a form feed
RetryAfterHeaders ==
    { NoHeader, Header(<<>>), Header(<<"3">>), Header(<<"1", ".", "5">>),
      Header(<<"s", "o", "o", "n">>), Header(<<"0", "x", "1", "0">>),
      Header(<<"-", "1">>), Header(<<"\f", "3">>) }

Bodies == {"json-object", "not-json", "stream-error"}

FetchException ==
    [threw |-> TRUE, status |-> 0, retryAfter |-> NoHeader, body |-> "none"]

RateLimitedResponses ==
    { [threw |-> FALSE, status |-> 429, retryAfter |-> h, body |-> "json-object"] :
        h \in RetryAfterHeaders }

\* The body of an ok response is parsed as JSON, so it comes in the three
\* kinds; the body of an error response is read as text, which a body that
\* is no JSON gives as well as one that is.
OtherResponses ==
    { [threw |-> FALSE, status |-> 200, retryAfter |-> NoHeader, body |-> b] :
        b \in Bodies }
    \cup { [threw |-> FALSE, status |-> s, retryAfter |-> NoHeader, body |-> b] :
              s \in {400, 500}, b \in {"json-object", "stream-error"} }
    \cup { [threw |-> FALSE, status |-> 404, retryAfter |-> NoHeader,
             body |-> "not-json"],
           [threw |-> FALSE, status |-> 204, retryAfter |-> NoHeader,
             body |-> "none"] }

Upstream == {FetchException} \cup RateLimitedResponses \cup OtherResponses

\* response.ok
Ok(r) == ~r.threw /\ r.status >= 200 /\ r.status <= 299

\* discord.js:50-56: the text of the body, the status text when reading fails
ErrorDetails(r) == IF r.body = "stream-error" THEN "statusText" ELSE r.body

\* the body is surfaced unparsed
ResponseDataRaw(r) == r.body

\* discord.js:77-84: the parsed body, null for 204 and when parsing fails
ResponseData(r) ==
    IF r.status # 204 /\ r.body = "json-object" THEN r.body ELSE "null"

(***************************************************************************)
(* The results postToDiscord resolves to.                                  *)
(***************************************************************************)
NoResult ==
    [status |-> 0, kind |-> "pending", upstreamStatus |-> 0, details |-> "",
     success |-> FALSE, discordResponse |-> "null"]

\* discord.js:7
InvalidUrlResult ==
    [status |-> 400, kind |-> "Invalid Discord webhook URL", upstreamStatus |-> 0,
     details |-> "", success |-> FALSE, discordResponse |-> "null"]

\* discord.js:44
RateLimitExceededResult ==
    [status |-> 429, kind |-> "Discord rate limit exceeded", upstreamStatus |-> 0,
     details |-> "", success |-> FALSE, discordResponse |-> "null"]

\* the status of the upstream response is passed on
WebhookErrorResultUpstream(r) ==
    [status |-> r.status, kind |-> "Discord Webhook Error", upstreamStatus |-> r.status,
     details |-> ErrorDetails(r), success |-> FALSE, discordResponse |-> "null"]

\* discord.js:66
WebhookErrorResult(r) ==
    [status |-> 500, kind |-> "Discord Webhook Error", upstreamStatus |-> r.status,
     details |-> ErrorDetails(r), success |-> FALSE, discordResponse |-> "null"]

\* the exhausted network error is reported as a rate limit
PostingFailedAsRateLimit == RateLimitExceededResult

\* discord.js:106
PostingFailedResult ==
    [status |-> 500, kind |-> "Discord posting failed", upstreamStatus |-> 0,
     details |-> "error.message", success |-> FALSE, discordResponse |-> "null"]

\* discord.js:87-93
SuccessResult(r) ==
    [status |-> 200, kind |-> "success", upstreamStatus |-> r.status,
     details |-> "", success |-> TRUE, discordResponse |-> ResponseData(r)]

(***************************************************************************)
(* The polled sources: documents, parsing, the stored id list.             *)
(***************************************************************************)
Sources == {"rss", "minecraft"}

\* What a document lists for one item: its stable id (the <id> of a feed
\* entry, the URL of the link of an article element; 0 when the entry has no
\* id, the element no link), whether the URL is that of an article (it has
\* '/article' in it), whether the item has a title (a <title> with text in
\* a feed entry, a heading element with text in an article element),
\* whether it has a heading element at all (one without text is empty), its
\* publication time (0 when it is missing) and the markup that carries the
\* time, numbered as the patterns of minecraft.js:146-151 that read it: 1 a
\* <time datetime>, 2 a <span> of a date class, 3 a text "N days ago", 4 a
\* plain yyyy-mm-dd, 0 no time.  An article element is
\*     <article> <a href=URL> heading </a> time </article>
\* with a URL relative to the site; an element without a link has its
\* heading in a <span>.  A page has no <div> of a card class.
Item(id, titled, published) ==
    [id |-> id, article |-> id # 0, titled |-> titled, heading |-> titled,
     published |-> published, dated |-> IF published = 0 THEN 0 ELSE 1]

\* What the documents of a source are made of.  The feed: entries with a
\* title, and one whose title is missing.  The articles page: elements with
\* a link to an article and a heading, one without a heading element, one
\* with an empty heading, one without a link, and one whose link is to no
\* article and that has no heading element.
RawItems(src) ==
    IF src = "rss"
    THEN { Item(101, TRUE, 3),
           Item(102, TRUE, 2),
           Item(1, TRUE, 1),
           Item(104, FALSE, 0) }
    ELSE { Item(101, TRUE, 3),
           Item(104, FALSE, 0),
           [Item(104, FALSE, 0) EXCEPT !.heading = TRUE],
           Item(0, TRUE, 2),
           [Item(105, FALSE, 0) EXCEPT !.article = FALSE] }

RECURSIVE SeqsUpTo(_, _)
SeqsUpTo(S, n) ==
    IF n = 0 THEN {<<>>}
    ELSE LET shorter == SeqsUpTo(S, n - 1)
         IN  shorter \cup { Append(q, x) : q \in shorter, x \in S }

\* the documents a source may list
Documents(src) == SeqsUpTo(RawItems(src), MaxFeedLen)

\* rss.js:107: an entry is kept when title, id and published are non-empty
ValidEntry(e) == e.titled /\ e.id # 0 /\ e.published # 0

\* rss.js:85-117
parseRSSFeed(doc) == SelectSeq(doc, ValidEntry)

\* minecraft.js:113: an article URL and a non-empty title
ValidArticle(a) == a.article /\ a.titled

\* minecraft.js:95: where the first match of the first pattern in the
\* elements ends, 0 when there is no match.  A match begins at an <article>
\* tag, takes the first link after it and then the first heading element
\* after that link, with or without text, and ends at the next </article>.
\* Nothing in the pattern keeps the link or the heading inside the element
\* the match begins in: it runs on over elements without a link up to the
\* first link, and from there over elements without a heading up to the
\* first heading.
FirstHeading(doc) ==
    LET ends == { k \in 1..Len(doc) :
                    doc[k].heading /\ \E j \in 1..k : doc[j].id # 0 }
    IN  IF ends = {} THEN 0
        ELSE CHOOSE k \in ends : \A j \in ends : k <= j

\* minecraft.js:145-160 on the matched text: the patterns are tried in their
\* order, each on the whole text, and the first pattern that matches gives
\* the date, read at its first match
extractDate(block) ==
    LET marked   == { block[k].dated : k \in 1..Len(block) } \ {0}
        pattern  == CHOOSE d \in marked : \A e \in marked : d <= e
        first    == CHOOSE k \in 1..Len(block) :
                       /\ block[k].dated = pattern
                       /\ \A j \in 1..(k - 1) : block[j].dated # pattern
    IN  IF marked = {} THEN 0 ELSE block[first].published

\* minecraft.js:103-119: what one match yields: the URL of its link, the
\* title of the heading it found and the date of the matched text
MatchedArticle(link, heading, block) ==
    [Item(link.id, heading.titled, extractDate(block))
        EXCEPT !.article = link.article]

\* minecraft.js:95, 101-136, the first pattern: the matches one after the
\* other, each begun after the end of the one before, with the first link
\* of the matched elements and the heading the match ends with.  A match
\* whose URL is of no article or whose title is empty is dropped, and an
\* article is taken once per URL.  The elements after the last match match
\* nothing.
RECURSIVE ParseArticles(_, _)
ParseArticles(doc, articles) ==
    IF FirstHeading(doc) = 0 THEN articles
    ELSE LET k == FirstHeading(doc)
             link == CHOOSE j \in 1..k :
                        doc[j].id # 0 /\ \A i \in 1..(j - 1) : doc[i].id = 0
             a == MatchedArticle(doc[link], doc[k], SubSeq(doc, 1, k))
             isDuplicate == \E j \in 1..Len(articles) : articles[j].id = a.id
         IN  ParseArticles(SubSeq(doc, k + 1, Len(doc)),
                 IF ValidArticle(a) /\ ~isDuplicate
                 THEN Append(articles, a) ELSE articles)

\* minecraft.js:99, 101-136, the third pattern: a match begins at a link to
\* an article, takes the first heading element after the start of the link
\* and ends at the first </a> after that heading: that of the element of
\* the heading, or of the next element with a link when the heading is in
\* an element without one.  The matched text holds the time markup of the
\* elements before the one the match ends in.
RECURSIVE ParseLinks(_, _)
ParseLinks(doc, articles) ==
    LET First(S) == CHOOSE k \in S : \A j \in S : k <= j
        links    == { j \in 1..Len(doc) : doc[j].article }
        headings == { k \in First(links)..Len(doc) : doc[k].heading }
        closings == { m \in First(headings)..Len(doc) : doc[m].id # 0 }
        last     == First(closings)
        a == MatchedArticle(doc[First(links)], doc[First(headings)],
                     SubSeq(doc, First(links), last - 1))
        isDuplicate == \E j \in 1..Len(articles) : articles[j].id = a.id
    IN  IF links = {} \/ headings = {} \/ closings = {} THEN articles
        ELSE ParseLinks(SubSeq(doc, last + 1, Len(doc)),
                 IF ValidArticle(a) /\ ~isDuplicate
                 THEN Append(articles, a) ELSE articles)

\* minecraft.js:86-137: the patterns are tried in their order until one
\* yields an article; the second, for the <div> of a card class, matches
\* nothing on these pages
parseMinecraftArticles(doc) ==
    IF ParseArticles(doc, <<>>) # <<>> THEN ParseArticles(doc, <<>>)
    ELSE ParseLinks(doc, <<>>)

Parse(src, doc) ==
    IF src = "rss" THEN parseRSSFeed(doc) ELSE parseMinecraftArticles(doc)

\* Array.prototype.includes on the id list
IncludesId(ids, id) == \E k \in 1..Len(ids) : ids[k] = id

\* nothing is filtered out
FilterNothing(entries, processed) == entries

\* rss.js:39, minecraft.js:39
FilterNew(entries, processed) ==
    LET IsNew(e) == ~IncludesId(processed, e.id)
    IN  SelectSeq(entries, IsNew)

\* Array.prototype.sort with the comparator of rss.js:47 (the difference of
\* the two dates): a stable sort, ascending by published.
RECURSIVE InsertByPublished(_, _)
InsertByPublished(sorted, e) ==
    IF sorted = <<>> THEN <<e>>
    ELSE IF sorted[Len(sorted)].published <= e.published
         THEN Append(sorted, e)
         ELSE Append(InsertByPublished(SubSeq(sorted, 1, Len(sorted) - 1), e),
                     sorted[Len(sorted)])

RECURSIVE SortFrom(_, _)
SortFrom(rest, sorted) ==
    IF rest = <<>> THEN sorted
    ELSE SortFrom(Tail(rest), InsertByPublished(sorted, Head(rest)))

\* rss.js:47
SortByPublished(entries) == SortFrom(entries, <<>>)

\* minecraft.js:47: at most this many articles per run
ArticlesPerRun == 5

\* slice(0, n)
SliceFirst(q, n) == IF Len(q) <= n THEN q ELSE SubSeq(q, 1, n)

\* rss.js:47 and minecraft.js:47: the new items one poll works through
ToProcess(src, newItems) ==
    IF src = "rss" THEN SortByPublished(newItems)
    ELSE SliceFirst(newItems, ArticlesPerRun)

\* rss.js:69, minecraft.js:69: the length the stored list is cut to
KeepLast == 100

\* the list is stored uncut
SliceNothing(q, n) == q

\* the first n are kept instead of the last n
SliceHead(q, n) == IF Len(q) <= n THEN q ELSE SubSeq(q, 1, n)

\* slice(-n)
SliceLast(q, n) == IF Len(q) <= n THEN q ELSE SubSeq(q, Len(q) - n + 1, Len(q))

\* What the store holds under a key: nothing, or the JSON of an id list.
Absent == [present |-> FALSE, ids |-> <<>>]
Stored(ids) == [present |-> TRUE, ids |-> ids]

\* kvutils.js:8-11 followed by the "|| []" of rss.js:35, minecraft.js:35
readFromKV(stored) == IF stored.present THEN stored.ids ELSE <<>>

\* kvutils.js:21-23
saveToKV(ids) == Stored(ids)

\* the value written is added to the list the key holds
KVPutMerged(stored, value) ==
    [present |-> TRUE,
     ids |-> stored.ids \o SelectSeq(value.ids, LAMBDA id : ~\E n \in 1..Len(stored.ids) : stored.ids[n] = id)]

\* kvutils.js:22: put replaces what the key holds
KVPut(stored, value) == value

Range(a, b) == [k \in 1..(b - a + 1) |-> a + k - 1]

\* the stored lists a behaviour starts from: no key yet, and lists one below
\* and at the limit, as earlier polls leave them
InitialStores == { Absent, Stored(Range(1, KeepLast - 1)), Stored(Range(1, KeepLast)) }

\* What handing one item to sendEntryToDiscord / sendArticleToDiscord ends
\* in: a Response with a status, or an exception.  With a webhook URL that
\* passes the check of discord.js:4 the Response is one postToDiscord
\* returns after a request: 200, 429 when the last attempt was rate limited,
\* 500 for every other failure.
Answered(status) == [threw |-> FALSE, status |-> status]
Threw == [threw |-> TRUE, status |-> 0]
DeliveryOutcomes == { Answered(200), Answered(429), Answered(500), Threw }

\* the fetch of the document: a 2xx response, another response, an exception
SourceOutcomes == {"ok", "not-ok", "throws"}

\* A poll instance that is not running. fetched is what the fetch of the
\* document ended in, thrown the step whose exception reached the catch of
\* line 74, status the status of the Response returned and count the
\* number its text reports.
IdlePoll ==
    [pc |-> "idle", src |-> "none", fetched |-> "none", entries |-> <<>>,
     processed |-> <<>>, toProcess |-> <<>>, log |-> <<>>, atStart |-> Absent,
     wrote |-> FALSE, thrown |-> "none", status |-> 0, count |-> 0]

\* the instance the polls of the /rss and /minecraft routes run in
Pollers == {"p1"}

\* the two polls the scheduled handler starts (index.js:158-161)
CronPolls == {"cronRss", "cronMinecraft"}

\* two requests of one route that are in flight together (index.js:142-153)
Overlapping == {"p1", "p2"}

Instances == Pollers \cup Overlapping \cup CronPolls

(***************************************************************************)
(* The GitHub webhook: event bodies and what the handlers answer.          *)
(***************************************************************************)
\* The fields of the JSON body the router and the handlers look at.
\*   pages         absent, not an array, an empty array, or an array of pages
\*   discussion    absent, or the discussion's category ("no-category" when
\*                 the discussion carries none)
\*   workflow_run  absent, or a run: not yet completed ("in_progress"), or
\*                 completed with the conclusion named
\*   pull_request  absent, a draft, or a pull request that is no draft
\*   release, issue, forkee, repository: present or not
Actions ==
    {"absent", "created", "edited", "completed", "published", "opened",
     "closed", "synchronize", "review_requested"}

\* The body of a request that is a JSON object.  pages: no field, a value
\* that is no array, [], pages that have a title, a page that was edited or
\* created and has neither title nor page_name, a page that is null.
\* discussion: no field, one without category, one of the category named;
\* an Announcements discussion may lack its labels.  issue: no field, one
\* with a title, one without.
Events ==
    [body : {"object"},
     action : Actions,
     pages : {"absent", "not-array", "empty", "some", "untitled", "null"},
     discussion : {"absent", "no-category", "Announcements",
                   "Announcements-no-labels", "Ideas and suggestions",
                   "General"},
     workflow_run : {"absent", "in_progress", "success", "failure", "skipped"},
     release : BOOLEAN,
     issue : {"absent", "titled", "untitled"},
     pull_request : {"absent", "draft", "ready"},
     forkee : BOOLEAN,
     repository : BOOLEAN]

\* an event with none of the fields, as before a call
NoEvent ==
    [body |-> "object", action |-> "absent", pages |-> "absent",
     discussion |-> "absent", workflow_run |-> "absent", release |-> FALSE,
     issue |-> "absent", pull_request |-> "absent", forkee |-> FALSE,
     repository |-> FALSE]

\* the bodies that are no JSON object: the JSON text null, and a text that
\* is no JSON at all (the empty body among them)
OtherBodies == { [NoEvent EXCEPT !.body = b] : b \in {"null", "not-json"} }

\* what a request to the route can carry
Requests == Events \cup OtherBodies

\* github.js:34
PullRequestActions ==
    {"opened", "ready_for_review", "review_requested", "reopened", "synchronize"}

\* github.js:14: only a created discussion is passed on
DiscussionAction(action) == action = "created"

\* github.js:4-45: the handler the router passes the event to; "ignored" and
\* "none" are its own two answers (lines 15, 37 and line 44)
Route(e) ==
    IF e.pages \in {"empty", "some", "untitled", "null"} THEN "handleWiki"
    ELSE IF e.discussion # "absent"
         THEN IF DiscussionAction(e.action) THEN "handleDiscussion" ELSE "ignored"
    ELSE IF e.workflow_run # "absent" /\ e.action = "completed" THEN "handleWorkflowRun"
    ELSE IF e.release /\ e.action = "published" THEN "handleRelease"
    ELSE IF e.issue # "absent" /\ e.action = "opened" THEN "handleIssue"
    ELSE IF e.pull_request # "absent"
         THEN IF e.action \in PullRequestActions THEN "handlePullRequest" ELSE "ignored"
    ELSE IF e.forkee /\ e.repository THEN "handleFork"
    ELSE "none"

Handlers ==
    {"handleWiki", "handleDiscussion", "handleWorkflowRun", "handleRelease",
     "handleIssue", "handlePullRequest", "handleFork"}

\* the statuses of the Responses postToDiscord returns (discord.js:7, 44,
\* 66, 91, 106)
PostStatuses == {200, 400, 429, 500}

\* a Response returned by the function named, an exception that leaves it
Responded(by, status, text) ==
    [by |-> by, threw |-> FALSE, status |-> status, text |-> text]
Thrown(by, error) == [by |-> by, threw |-> TRUE, status |-> 0, text |-> error]
NoResponse == [by |-> "none", threw |-> FALSE, status |-> 0, text |-> "pending"]

\* the Response of postToDiscord, returned as it is
Posted(by, status) == Responded(by, status, "postToDiscord")

\* one call of postToDiscord: the webhook of config.js, the status of the
\* Response, and the arguments passed after the payload
PostWith(to, status, args) == [to |-> to, status |-> status, args |-> args]
Post(to, status) == PostWith(to, status, <<>>)

\* github.js:600-601, 617-621: artifactFile and artifactFilename.  For an
\* artifact without a name line 618 sets the file, line 621 throws on
\* artifact.name.endsWith, and the catch of line 629 leaves the name null.
NoFile == <<"null", "null">>
BlobFile == <<"blob", "name.zip">>
UnnamedBlobFile == <<"blob", "null">>

\* the artifact is asked for whenever the run succeeded
AttachArtifactNoToken(conclusion, token) == conclusion = "success"

\* github.js:604: conclusion === 'success' && env?.GITHUB_TOKEN
AttachArtifact(conclusion, token) == conclusion = "success" /\ token

\* what the fetch of a request comes to: it throws, the response is not
\* ok, the response is ok and its body is awaited
FetchOutcomes == {"throws", "not-ok", "ok"}

\* what reading the list comes to: response.json() throws, the body has no
\* artifacts field, an empty list, a list whose first artifact has a name,
\* a list whose first artifact has none
ListOutcomes == {"json-throws", "no-field", "empty", "some", "unnamed"}

\* github.js:609: artifacts && artifacts.length > 0, of the list that
\* fetchWorkflowArtifacts returns (github.js:643-674)
HasArtifacts(outcome) == outcome \in {"some", "unnamed"}

\* the first request of downloadArtifact: fetch throws, a status other than
\* 301 and 302, a redirect without Location, a redirect
RedirectOutcomes == {"throws", "not-redirect", "no-location", "redirect"}

\* github.js:698-708
Redirected(outcome) == outcome = "redirect"

\* what reading the body of the second response comes to: blob() throws,
\* the blob
StorageOutcomes == {"blob-throws", "blob"}

\* github.js:617-621, 629: what the handler holds after the download
ArtifactFile(outcome, listed) ==
    IF outcome # "blob" THEN NoFile
    ELSE IF listed = "unnamed" THEN UnnamedBlobFile
    ELSE BlobFile

\* one request to the GitHub API or to the storage it redirects to, and
\* what it came to; "ok" while the body of its response is awaited
ArtifactCall(call, outcome) == [call |-> call, outcome |-> outcome]

\* env.GITHUB_TOKEN, the requests made for the artifact and artifactFile
ArtifactState(token) == [token |-> token, calls |-> <<>>, file |-> NoFile]
NoArtifact == ArtifactState(FALSE)

\* the release counts as sent when either message went out
ReleaseResultEither(news, changelog) ==
    IF news = 200 \/ changelog = 200
    THEN Responded("handleRelease", 200, "Success")
    ELSE Responded("handleRelease", 500, "Partial failure")

\* github.js:243-248
ReleaseResult(news, changelog) ==
    IF news = 200 /\ changelog = 200
    THEN Responded("handleRelease", 200, "Success")
    ELSE Responded("handleRelease", 500, "Partial failure")

(***************************************************************************)
(* State.                                                                  *)
(***************************************************************************)
VARIABLES
    webhookUrl,     \* postToDiscord's first argument
    maxRetries,     \* postToDiscord's third argument
    attempt,        \* request's parameter: the number of the current attempt
    dpc,            \* where postToDiscord stands: validate, fetch, sleep, done
    retryDelay,     \* the delay handed to setTimeout while dpc = "sleep"
    fetchCalls,     \* number of fetch calls made by this invocation
    responses,      \* what each fetch came back with, in order
    sleeps,         \* the delays slept, in order
    result,         \* the Response the invocation resolved to
    listing,        \* per source, the items its document lists now
    kv,             \* FABRIC_KV: per source key, the stored id list
    poll,           \* per poll instance, where it stands and its locals
    polls,          \* number of polls started so far
    attempts,       \* per source, the delivery calls of the polls that have
                    \* returned, where a behaviour keeps them: the id, how
                    \* the call ended, and whether that poll wrote the list
    event,          \* the JSON body handleGitHubWebhook was called with
    gpc,            \* where handleGitHubWebhook stands
    posts,          \* its postToDiscord calls: the webhook and the status
    gresult,        \* the Response it returned, or the exception it threw
    artifact        \* handleWorkflowRun: the token, the requests made for
                    \* the artifact of the run, and the file to attach

dvars == <<webhookUrl, maxRetries, attempt, dpc, retryDelay, fetchCalls,
           responses, sleeps, result>>

pvars == <<listing, kv, poll, polls, attempts>>

gvars == <<event, gpc, posts, gresult, artifact>>

vars == <<dvars, pvars, gvars>>

\* handleGitHubWebhook is not called
GitHubIdle ==
    /\ event = NoEvent
    /\ gpc = "idle"
    /\ posts = <<>>
    /\ gresult = NoResponse
    /\ artifact = NoArtifact

(***************************************************************************)
(* postToDiscord (discord.js:2-111).                                       *)
(***************************************************************************)
\* off by one: the last retry is never taken
RetryLeftStrict(n, max) == n < max

\* off by one: one retry too many
RetryLeftExtra(n, max) == n <= max + 1

\* a retry is left for the current attempt (discord.js:32, 59, 99)
RetryLeft(n, max) == n <= max

\* every error status is retried, client errors included
RetryAnyError(r, n, max) == r.status >= 400 /\ RetryLeft(n, max)

\* discord.js:59: only server errors are retried
RetryServerError(r, n, max) == r.status >= 500 /\ RetryLeft(n, max)

InitDeliver ==
    /\ webhookUrl \in SampleUrls
    /\ maxRetries \in 0..MaxRetriesBound
    /\ attempt = 1
    /\ dpc = "validate"
    /\ retryDelay = Num(0)
    /\ fetchCalls = 0
    /\ responses = <<>>
    /\ sleeps = <<>>
    /\ result = NoResult
    /\ listing = [s \in Sources |-> <<>>]
    /\ kv = [s \in Sources |-> Absent]
    /\ poll = [p \in Instances |-> IdlePoll]
    /\ polls = 0
    /\ attempts = [s \in Sources |-> {}]
    /\ GitHubIdle

\* discord.js:4-8 and the first call of request (discord.js:110)
Validate ==
    /\ dpc = "validate"
    /\ IF InvalidWebhookUrl(webhookUrl)
       THEN /\ result' = InvalidUrlResult
            /\ dpc' = "done"
       ELSE /\ result' = result
            /\ dpc' = "fetch"
    /\ UNCHANGED <<webhookUrl, maxRetries, attempt, retryDelay, fetchCalls,
                   responses, sleeps>>
    /\ UNCHANGED <<pvars, gvars>>

\* the fetch of discord.js:15 has come back with r
Fetched(r) ==
    /\ dpc = "fetch"
    /\ fetchCalls' = fetchCalls + 1
    /\ responses' = Append(responses, r)
    /\ UNCHANGED <<webhookUrl, maxRetries, attempt, sleeps>>
    /\ UNCHANGED <<pvars, gvars>>

Retry(delay) ==
    /\ retryDelay' = delay
    /\ dpc' = "sleep"
    /\ result' = result

Return(res) ==
    /\ result' = res
    /\ dpc' = "done"
    /\ retryDelay' = retryDelay

\* discord.js:31-46
RateLimited ==
    \E r \in RateLimitedResponses :
        /\ Fetched(r)
        /\ IF RetryLeft(attempt, maxRetries)
           THEN Retry(RateLimitDelay(r.retryAfter, attempt))
           ELSE Return(RateLimitExceededResult)

\* the response whose body is being read
Current == responses[Len(responses)]

\* discord.js:49-52: a response that is neither 429 nor ok; its text is
\* awaited before anything is decided
ErrorResponse ==
    \E r \in OtherResponses :
        /\ ~Ok(r)
        /\ Fetched(r)
        /\ dpc' = "text"
        /\ UNCHANGED <<retryDelay, result>>

\* discord.js:52-66: response.text() has settled
ErrorDetailsRead ==
    /\ dpc = "text"
    /\ IF RetryServerError(Current, attempt, maxRetries)
       THEN Retry(Num(ExponentialBackoff(attempt)))
       ELSE Return(WebhookErrorResult(Current))
    /\ UNCHANGED <<webhookUrl, maxRetries, attempt, fetchCalls, responses, sleeps>>
    /\ UNCHANGED <<pvars, gvars>>

\* discord.js:69-80: an ok response; 204 is answered at once (discord.js:87),
\* the JSON of every other status is awaited first
SuccessResponse ==
    \E r \in OtherResponses :
        /\ Ok(r)
        /\ Fetched(r)
        /\ IF r.status = 204
           THEN Return(SuccessResult(r))
           ELSE /\ dpc' = "json"
                /\ UNCHANGED <<retryDelay, result>>

\* discord.js:80-93: response.json() has settled
ResponseDataRead ==
    /\ dpc = "json"
    /\ Return(SuccessResult(Current))
    /\ UNCHANGED <<webhookUrl, maxRetries, attempt, fetchCalls, responses, sleeps>>
    /\ UNCHANGED <<pvars, gvars>>

\* discord.js:95-107
FetchThrows ==
    /\ Fetched(FetchException)
    /\ IF RetryLeft(attempt, maxRetries)
       THEN Retry(Num(ExponentialBackoff(attempt)))
       ELSE Return(PostingFailedResult)

\* the timer of discord.js:40, 62, 102 fires and request(attempt + 1) starts
Backoff ==
    /\ dpc = "sleep"
    /\ sleeps' = Append(sleeps, retryDelay)
    /\ attempt' = attempt + 1
    /\ dpc' = "fetch"
    /\ UNCHANGED <<webhookUrl, maxRetries, retryDelay, fetchCalls, responses, result>>
    /\ UNCHANGED <<pvars, gvars>>

NextDeliver ==
    \/ Validate
    \/ RateLimited
    \/ ErrorResponse
    \/ ErrorDetailsRead
    \/ SuccessResponse
    \/ ResponseDataRead
    \/ FetchThrows
    \/ Backoff

SpecDeliver == InitDeliver /\ [][NextDeliver]_vars

\* every fetch and every timer completes
FairDeliver == SpecDeliver /\ WF_vars(NextDeliver)

(***************************************************************************)
(* handleRSS (rss.js:17-78) and handleMinecraftNews (minecraft.js:17-78).  *)
(* The two handlers are the same loop; they differ in the parser, in the   *)
(* sort (RSS only) and in the cap per run (Minecraft only).                *)
(***************************************************************************)
\* no postToDiscord invocation is followed while the polls are studied
DeliverIdle ==
    /\ webhookUrl = UndefinedUrl
    /\ maxRetries = 3
    /\ attempt = 1
    /\ dpc = "idle"
    /\ retryDelay = Num(0)
    /\ fetchCalls = 0
    /\ responses = <<>>
    /\ sleeps = <<>>
    /\ result = NoResult

\* One source lists a document and has a stored list; nothing runs yet.
InitPoll ==
    /\ DeliverIdle
    /\ \E s \in Sources : \E doc \in Documents(s), st \in InitialStores :
          /\ listing = [x \in Sources |-> IF x = s THEN doc ELSE <<>>]
          /\ kv = [x \in Sources |-> IF x = s THEN st ELSE Absent]
    /\ poll = [p \in Instances |-> IdlePoll]
    /\ polls = 0
    /\ attempts = [s \in Sources |-> {}]
    /\ GitHubIdle

\* the handler is entered (index.js:142-162)
StartPoll(p, s) ==
    /\ poll[p].pc = "idle"
    /\ polls < MaxPolls
    /\ polls' = polls + 1
    /\ poll' = [poll EXCEPT ![p] =
                  [IdlePoll EXCEPT !.pc = "fetch", !.src = s, !.atStart = kv[s]]]
    /\ UNCHANGED <<listing, kv, attempts>>
    /\ UNCHANGED <<dvars, gvars>>

\* only an exception of fetch counts: the ok flag is not looked at
FetchFailedOnThrow(outcome) == outcome = "throws"

\* rss.js:22-25, minecraft.js:22-25: fetch throws, or the handler throws
\* because the response is not ok
FetchFailed(outcome) == outcome # "ok"

\* rss.js:74-77, minecraft.js:74-77: the status the catch answers with
ErrorStatus == 500

\* an exception of the store is logged and the poll answers 200
CatchStatusStoreSwallowed(step) ==
    IF step \in {"fetch", "text"} THEN ErrorStatus ELSE 200

\* rss.js:74-77, minecraft.js:74-77: one catch for the fetch, the text of
\* the response, the read and the write
CatchStatus(step) == ErrorStatus

\* rss.js:22-25, minecraft.js:22-25: the fetch of the document settles; it
\* throws or is not ok and the catch of line 74 answers 500, or the text of
\* the response is awaited
FetchSource(p, outcome) ==
    /\ poll[p].pc = "fetch"
    /\ poll' = [poll EXCEPT ![p] =
                  IF FetchFailed(outcome)
                  THEN [@ EXCEPT !.pc = "done", !.fetched = outcome,
                                 !.thrown = "fetch",
                                 !.status = CatchStatus("fetch")]
                  ELSE [@ EXCEPT !.pc = "text", !.fetched = outcome]]
    /\ UNCHANGED <<listing, kv, polls, attempts>>
    /\ UNCHANGED <<dvars, gvars>>

\* rss.js:27-31, minecraft.js:27-31: the text has been read and the parser,
\* an async function, is called and awaited; or reading the text throws and
\* the catch of line 74 answers 500
ReadSourceText(p) ==
    /\ poll[p].pc = "text"
    /\ \E outcome \in {"text", "stream-error"} :
          poll' = [poll EXCEPT ![p] =
                     IF outcome = "text"
                     THEN [@ EXCEPT !.pc = "parse"]
                     ELSE [@ EXCEPT !.pc = "done", !.thrown = "text",
                                    !.status = CatchStatus("text")]]
    /\ UNCHANGED <<listing, kv, polls, attempts>>
    /\ UNCHANGED <<dvars, gvars>>

\* rss.js:31-35, minecraft.js:31-35: the parser has returned the entries and
\* the read of the store is awaited
ParseSource(p) ==
    /\ poll[p].pc = "parse"
    /\ poll' = [poll EXCEPT ![p] =
                  [@ EXCEPT !.pc = "read",
                            !.entries = Parse(poll[p].src, listing[poll[p].src])]]
    /\ UNCHANGED <<listing, kv, polls, attempts>>
    /\ UNCHANGED <<dvars, gvars>>

\* without the early return the handler goes on to write the list
AfterReadAlwaysSave(newItems) == IF newItems = <<>> THEN "save" ELSE "deliver"

\* rss.js:42-44, minecraft.js:42-44: with no new item the handler returns
AfterRead(newItems) == IF newItems = <<>> THEN "done" ELSE "deliver"

\* rss.js:35-47, minecraft.js:35-47: the stored list is read and the new
\* items are selected; with none the handler answers 200 at once
ReadProcessed(p) ==
    /\ poll[p].pc = "read"
    /\ LET processed == readFromKV(kv[poll[p].src])
           newItems == FilterNew(poll[p].entries, processed)
       IN  poll' = [poll EXCEPT ![p] =
                      IF AfterRead(newItems) = "done"
                      THEN [@ EXCEPT !.pc = "done", !.processed = processed,
                                     !.status = 200]
                      ELSE [@ EXCEPT !.pc = AfterRead(newItems),
                                     !.processed = processed,
                                     !.toProcess = ToProcess(poll[p].src, newItems)]]
    /\ UNCHANGED <<listing, kv, polls, attempts>>
    /\ UNCHANGED <<dvars, gvars>>

\* the read of the store throws: the catch of line 74 answers 500
ReadFails(p) ==
    /\ poll[p].pc = "read"
    /\ poll' = [poll EXCEPT ![p] =
                  [@ EXCEPT !.pc = "done", !.thrown = "read",
                            !.status = CatchStatus("read")]]
    /\ UNCHANGED <<listing, kv, polls, attempts>>
    /\ UNCHANGED <<dvars, gvars>>

\* the catch pushes the id as well
MarksProcessedAlways(outcome) == TRUE

\* the id is pushed only after a delivery that answered 200
MarksProcessedOnSuccess(outcome) == ~outcome.threw /\ outcome.status = 200

\* rss.js:54-61, minecraft.js:54-61: both branches of the test of the status
\* push the id; the catch of line 62 does not
MarksProcessed(outcome) == ~outcome.threw

\* the loop is left at the first delivery that throws
LoopEndsOnThrow(log, toProcess) ==
    Len(log) = Len(toProcess) \/ log[Len(log)].outcome.threw

\* rss.js:49, 62-65, minecraft.js:49, 62-65: the loop ends with the last
\* item; the catch inside it lets it go on
LoopEnds(log, toProcess) == Len(log) = Len(toProcess)

\* the list is saved after every item
StoredPerItem(stored, processed) == saveToKV(processed)

\* rss.js:49-66, minecraft.js:49-66: the loop has no call of saveToKV; what
\* the store holds after a turn is what it held before
StoredDuringLoop(stored, processed) == stored

\* rss.js:49-66, minecraft.js:49-66: one turn of the loop. The item is
\* handed to the delivery; its id is pushed unless the delivery threw.
Deliver(p, outcome) ==
    /\ poll[p].pc = "deliver"
    /\ LET item == poll[p].toProcess[Len(poll[p].log) + 1]
           log == Append(poll[p].log,
                         [id |-> item.id, published |-> item.published,
                          outcome |-> outcome])
           processed == IF MarksProcessed(outcome)
                        THEN Append(poll[p].processed, item.id)
                        ELSE poll[p].processed
       IN  /\ poll' = [poll EXCEPT ![p] =
                        [@ EXCEPT !.log = log,
                                  !.processed = processed,
                                  !.pc = IF LoopEnds(log, poll[p].toProcess)
                                         THEN "save" ELSE "deliver"]]
           /\ kv' = [kv EXCEPT ![poll[p].src] = StoredDuringLoop(@, processed)]
    /\ UNCHANGED <<listing, polls, attempts>>
    /\ UNCHANGED <<dvars, gvars>>

\* rss.js:69-72, minecraft.js:69-72
SaveProcessed(p) ==
    /\ poll[p].pc = "save"
    /\ kv' = [kv EXCEPT ![poll[p].src] =
                 KVPut(@, saveToKV(SliceLast(poll[p].processed, KeepLast)))]
    /\ poll' = [poll EXCEPT ![p] =
                  [@ EXCEPT !.pc = "done", !.wrote = TRUE, !.status = 200,
                            !.count = Len(poll[p].toProcess)]]
    /\ UNCHANGED <<listing, polls, attempts>>
    /\ UNCHANGED <<dvars, gvars>>

\* the write to the store throws: the catch of line 74 answers 500
SaveFails(p) ==
    /\ poll[p].pc = "save"
    /\ poll' = [poll EXCEPT ![p] =
                  [@ EXCEPT !.pc = "done", !.thrown = "save",
                            !.status = CatchStatus("save")]]
    /\ UNCHANGED <<listing, kv, polls, attempts>>
    /\ UNCHANGED <<dvars, gvars>>

\* the Response has gone to the caller; the instance can run again
Finish(p) ==
    /\ poll[p].pc = "done"
    /\ poll' = [poll EXCEPT ![p] = IdlePoll]
    /\ UNCHANGED <<listing, kv, polls, attempts>>
    /\ UNCHANGED <<dvars, gvars>>

NextPoll ==
    \/ \E p \in Pollers, s \in Sources : StartPoll(p, s)
    \/ \E p \in Pollers, o \in SourceOutcomes : FetchSource(p, o)
    \/ \E p \in Pollers : ReadSourceText(p)
    \/ \E p \in Pollers : ParseSource(p)
    \/ \E p \in Pollers : ReadProcessed(p)
    \/ \E p \in Pollers : ReadFails(p)
    \/ \E p \in Pollers, o \in DeliveryOutcomes : Deliver(p, o)
    \/ \E p \in Pollers : SaveProcessed(p)
    \/ \E p \in Pollers : SaveFails(p)
    \/ \E p \in Pollers : Finish(p)

SpecPoll == InitPoll /\ [][NextPoll]_vars

(***************************************************************************)
(* Polls of an articles page that lists more articles than one run takes.  *)
(***************************************************************************)
\* A page of n articles, article 200 + k at position k. The articles page
\* lists the newest article first; the second page lists the same articles
\* the other way round.
NewestFirstPage(n) == [k \in 1..n |-> Item(200 + k, TRUE, n + 1 - k)]
OldestFirstPage(n) == [k \in 1..n |-> Item(200 + k, TRUE, k)]

\* pages of one and two articles more than a run takes
LongPages ==
    { NewestFirstPage(ArticlesPerRun + 1), OldestFirstPage(ArticlesPerRun + 1),
      NewestFirstPage(ArticlesPerRun + 2) }

\* The articles page lists a long page; the store has no list yet or holds
\* the id of the first article of the page.
InitCap ==
    /\ DeliverIdle
    /\ \E doc \in LongPages : \E st \in {Absent, Stored(<<doc[1].id>>)} :
          /\ listing = [x \in Sources |-> IF x = "minecraft" THEN doc ELSE <<>>]
          /\ kv = [x \in Sources |-> IF x = "minecraft" THEN st ELSE Absent]
    /\ poll = [p \in Instances |-> IdlePoll]
    /\ polls = 0
    /\ attempts = [s \in Sources |-> {}]
    /\ GitHubIdle

SpecCap == InitCap /\ [][NextPoll]_vars

(***************************************************************************)
(* Polls one after the other whose delivery calls are kept, so that a      *)
(* later poll can be compared with the earlier ones.                       *)
(***************************************************************************)
\* the documents these polls read: one and two entries, in both orders, an
\* entry listed twice, and an entry next to one without a title
RepollDocuments ==
    { <<Item(101, TRUE, 3)>>,
      <<Item(101, TRUE, 3), Item(102, TRUE, 2)>>,
      <<Item(102, TRUE, 2), Item(101, TRUE, 3)>>,
      <<Item(101, TRUE, 3), Item(101, TRUE, 3)>>,
      <<Item(104, FALSE, 0), Item(102, TRUE, 2)>> }

InitRepoll ==
    /\ DeliverIdle
    /\ \E s \in Sources, doc \in RepollDocuments, st \in InitialStores :
          /\ listing = [x \in Sources |-> IF x = s THEN doc ELSE <<>>]
          /\ kv = [x \in Sources |-> IF x = s THEN st ELSE Absent]
    /\ poll = [p \in Instances |-> IdlePoll]
    /\ polls = 0
    /\ attempts = [s \in Sources |-> {}]
    /\ GitHubIdle

\* Finish, with the delivery calls of the poll kept
FinishRecorded(p) ==
    /\ poll[p].pc = "done"
    /\ poll' = [poll EXCEPT ![p] = IdlePoll]
    /\ attempts' = [attempts EXCEPT ![poll[p].src] =
                       @ \cup { [id |-> poll[p].log[k].id,
                                 outcome |-> poll[p].log[k].outcome,
                                 saved |-> poll[p].wrote] :
                               k \in 1..Len(poll[p].log) }]
    /\ UNCHANGED <<listing, kv, polls>>
    /\ UNCHANGED <<dvars, gvars>>

NextRepoll ==
    \/ \E p \in Pollers, s \in Sources : StartPoll(p, s)
    \/ \E p \in Pollers, o \in SourceOutcomes : FetchSource(p, o)
    \/ \E p \in Pollers : ReadSourceText(p)
    \/ \E p \in Pollers : ParseSource(p)
    \/ \E p \in Pollers : ReadProcessed(p)
    \/ \E p \in Pollers : ReadFails(p)
    \/ \E p \in Pollers, o \in DeliveryOutcomes : Deliver(p, o)
    \/ \E p \in Pollers : SaveProcessed(p)
    \/ \E p \in Pollers : SaveFails(p)
    \/ \E p \in Pollers : FinishRecorded(p)

SpecRepoll == InitRepoll /\ [][NextRepoll]_vars

(***************************************************************************)
(* handleGitHubWebhook and its handlers (github.js:4-638).                 *)
(***************************************************************************)
\* A request with one event body has reached the /github route.
InitGitHub ==
    /\ DeliverIdle
    /\ listing = [s \in Sources |-> <<>>]
    /\ kv = [s \in Sources |-> Absent]
    /\ poll = [p \in Instances |-> IdlePoll]
    /\ polls = 0
    /\ attempts = [s \in Sources |-> {}]
    /\ event \in Requests
    /\ gpc = "route"
    /\ posts = <<>>
    /\ gresult = NoResponse
    /\ artifact \in { ArtifactState(token) : token \in BOOLEAN }

\* the handler returns res
Answer(res) ==
    /\ gresult' = res
    /\ gpc' = "done"
    /\ posts' = posts

\* the handler returns what postToDiscord returns for the webhook named
PostAndReturn(by, to) ==
    \E status \in PostStatuses :
        /\ posts' = Append(posts, Post(to, status))
        /\ gresult' = Posted(by, status)
        /\ gpc' = "done"

\* github.js:5: request.json() rejects for a body that is no JSON, and
\* github.js:8: data.pages throws for the body null
BodyThrows(e) == e.body # "object"

\* github.js:4-45: the event is passed to one handler, or answered Ignored;
\* nothing catches what the router throws (index.js:137-139)
handleGitHubWebhook ==
    /\ gpc = "route"
    /\ IF BodyThrows(event)
       THEN Answer(Thrown("handleGitHubWebhook",
                          IF event.body = "not-json" THEN "SyntaxError"
                                                     ELSE "TypeError"))
       ELSE IF Route(event) \in Handlers
       THEN /\ gpc' = Route(event)
            /\ UNCHANGED <<posts, gresult>>
       ELSE Answer(Responded("handleGitHubWebhook", 200, "Ignored"))
    /\ UNCHANGED <<event, artifact>>
    /\ UNCHANGED <<dvars, pvars>>

\* github.js:48-112: page.title throws for a page that is null (line 61),
\* pageTitle.length throws for an edited or created page that has neither
\* title nor page_name (line 84)
handleWiki ==
    /\ gpc = "handleWiki"
    /\ IF event.pages = "empty"
       THEN Answer(Responded("handleWiki", 400, "Invalid wiki data"))
       ELSE IF event.pages \in {"untitled", "null"}
       THEN Answer(Thrown("handleWiki", "TypeError"))
       ELSE PostAndReturn("handleWiki", "wiki")
    /\ UNCHANGED <<event, artifact>>
    /\ UNCHANGED <<dvars, pvars>>

\* github.js:115-178: discussion.category.name throws when the discussion
\* has no category (line 116), discussion.labels.some when an Announcements
\* discussion has no labels (line 129)
handleDiscussion ==
    /\ gpc = "handleDiscussion"
    /\ IF event.discussion \in {"no-category", "Announcements-no-labels"}
       THEN Answer(Thrown("handleDiscussion", "TypeError"))
       ELSE IF event.discussion = "Announcements"
       THEN PostAndReturn("handleDiscussion", "news")
       ELSE IF event.discussion = "Ideas and suggestions"
       THEN PostAndReturn("handleDiscussion", "suggestions")
       ELSE Answer(Responded("handleDiscussion", 200, "Ignored"))
    /\ UNCHANGED <<event, artifact>>
    /\ UNCHANGED <<dvars, pvars>>

\* github.js:181-239: the message for the news channel is posted
handleReleaseNews ==
    /\ gpc = "handleRelease"
    /\ \E status \in PostStatuses :
          posts' = Append(posts, Post("news", status))
    /\ gpc' = "changelog"
    /\ UNCHANGED <<event, gresult, artifact>>
    /\ UNCHANGED <<dvars, pvars>>

\* github.js:240-249: the message for the changelog channel is posted and
\* the two statuses decide the Response
handleReleaseChangelog ==
    /\ gpc = "changelog"
    /\ \E status \in PostStatuses :
          /\ posts' = Append(posts, Post("changelog", status))
          /\ gresult' = ReleaseResult(posts[1].status, status)
    /\ gpc' = "done"
    /\ UNCHANGED <<event, artifact>>
    /\ UNCHANGED <<dvars, pvars>>

\* github.js:252-325: issue.title.length throws for an issue without a
\* title (line 282)
handleIssue ==
    /\ gpc = "handleIssue"
    /\ IF event.issue = "untitled"
       THEN Answer(Thrown("handleIssue", "TypeError"))
       ELSE PostAndReturn("handleIssue", "issues")
    /\ UNCHANGED <<event, artifact>>
    /\ UNCHANGED <<dvars, pvars>>

\* github.js:328-461
handlePullRequest ==
    /\ gpc = "handlePullRequest"
    /\ IF event.action \in {"opened", "reopened", "synchronize"}
          /\ event.pull_request = "draft"
       THEN Answer(Responded("handlePullRequest", 200, "Ignored - draft PR"))
       ELSE IF event.action \in {"opened", "ready_for_review", "reopened",
                                 "synchronize", "review_requested"}
       THEN PostAndReturn("handlePullRequest", "prs")
       ELSE Answer(Responded("handlePullRequest", 400, "Unsupported action"))
    /\ UNCHANGED <<event, artifact>>
    /\ UNCHANGED <<dvars, pvars>>

\* github.js:464-510
handleFork ==
    /\ gpc = "handleFork"
    /\ PostAndReturn("handleFork", "issues")
    /\ UNCHANGED <<event, artifact>>
    /\ UNCHANGED <<dvars, pvars>>

\* github.js:513-604: a run that has not completed or was skipped is
\* answered at once; the artifact is asked for, or the message is posted
handleWorkflowRun ==
    /\ gpc = "handleWorkflowRun"
    /\ IF event.workflow_run = "in_progress"
       THEN Answer(Responded("handleWorkflowRun", 200,
                             "Ignored - workflow not completed"))
       ELSE IF event.workflow_run = "skipped"
       THEN Answer(Responded("handleWorkflowRun", 200,
                             "Ignored - workflow skipped"))
       ELSE /\ gpc' = IF AttachArtifact(event.workflow_run, artifact.token)
                      THEN "fetchWorkflowArtifacts"
                      ELSE "postWorkflowRun"
            /\ UNCHANGED <<posts, gresult>>
    /\ UNCHANGED <<event, artifact>>
    /\ UNCHANGED <<dvars, pvars>>

\* the last request made for the artifact has come to outcome
Settled(calls, outcome) == [calls EXCEPT ![Len(calls)].outcome = outcome]

\* github.js:607, 642-665: the fetch of the list of artifacts settles; a
\* failure gives the empty list, and the body of an ok response is awaited
fetchWorkflowArtifacts ==
    /\ gpc = "fetchWorkflowArtifacts"
    /\ \E o \in FetchOutcomes :
          /\ artifact' = [artifact EXCEPT
                             !.calls = Append(@, ArtifactCall("list", o))]
          /\ gpc' = IF o = "ok" THEN "readArtifactList" ELSE "postWorkflowRun"
    /\ UNCHANGED <<event, posts, gresult>>
    /\ UNCHANGED <<dvars, pvars>>

\* github.js:667-674, 609-615: response.json() settles; with an artifact in
\* the list the download URL of the first one is asked for
readArtifactList ==
    /\ gpc = "readArtifactList"
    /\ \E o \in ListOutcomes :
          /\ artifact' = [artifact EXCEPT !.calls = Settled(@, o)]
          /\ gpc' = IF HasArtifacts(o) THEN "downloadArtifact"
                                       ELSE "postWorkflowRun"
    /\ UNCHANGED <<event, posts, gresult>>
    /\ UNCHANGED <<dvars, pvars>>

\* github.js:615, 678-719: the request for the download URL settles; a
\* failure returns null, a redirect is followed by the request to the
\* storage
downloadArtifact ==
    /\ gpc = "downloadArtifact"
    /\ \E o \in RedirectOutcomes :
          /\ artifact' = [artifact EXCEPT
                             !.calls = Append(@, ArtifactCall("redirect", o))]
          /\ gpc' = IF Redirected(o) THEN "downloadFromStorage"
                                     ELSE "postWorkflowRun"
    /\ UNCHANGED <<event, posts, gresult>>
    /\ UNCHANGED <<dvars, pvars>>

\* github.js:719-727: the fetch from the storage settles; a failure returns
\* null, and the blob of an ok response is awaited
downloadFromStorage ==
    /\ gpc = "downloadFromStorage"
    /\ \E o \in FetchOutcomes :
          /\ artifact' = [artifact EXCEPT
                             !.calls = Append(@, ArtifactCall("storage", o))]
          /\ gpc' = IF o = "ok" THEN "readArtifactBlob" ELSE "postWorkflowRun"
    /\ UNCHANGED <<event, posts, gresult>>
    /\ UNCHANGED <<dvars, pvars>>

\* github.js:730-737, 617-631: downloadResponse.blob() settles; with the
\* blob artifactFile is set, and artifactFilename when the artifact has a
\* name
readArtifactBlob ==
    /\ gpc = "readArtifactBlob"
    /\ \E o \in StorageOutcomes :
          artifact' = [artifact EXCEPT
                          !.calls = Settled(@, o),
                          !.file = ArtifactFile(o, artifact.calls[1].outcome)]
    /\ gpc' = "postWorkflowRun"
    /\ UNCHANGED <<event, posts, gresult>>
    /\ UNCHANGED <<dvars, pvars>>

\* github.js:636-638
postWorkflowRun ==
    /\ gpc = "postWorkflowRun"
    /\ \E status \in PostStatuses :
          /\ posts' = Append(posts, PostWith("workflows", status, artifact.file))
          /\ gresult' = Posted("handleWorkflowRun", status)
    /\ gpc' = "done"
    /\ UNCHANGED <<event, artifact>>
    /\ UNCHANGED <<dvars, pvars>>

NextGitHub ==
    \/ handleGitHubWebhook
    \/ handleWiki
    \/ handleDiscussion
    \/ handleWorkflowRun
    \/ fetchWorkflowArtifacts
    \/ readArtifactList
    \/ downloadArtifact
    \/ downloadFromStorage
    \/ readArtifactBlob
    \/ postWorkflowRun
    \/ handleReleaseNews
    \/ handleReleaseChangelog
    \/ handleIssue
    \/ handlePullRequest
    \/ handleFork

SpecGitHub == InitGitHub /\ [][NextGitHub]_vars

(***************************************************************************)
(* scheduled (index.js:156-162): the cron trigger runs both polls.         *)
(***************************************************************************)
\* only the feed is polled
ScheduledRssOnly == {"cronRss"}

\* index.js:158-161: the handlers called inside Promise.all([...])
Scheduled == CronPolls

\* index.js:159-160: the source each of the two calls polls
SourceOf(p) == IF p = "cronRss" THEN "rss" ELSE "minecraft"

\* Both sources list a document; the store has no list yet or holds the
\* list of an earlier poll.
InitScheduled ==
    /\ DeliverIdle
    /\ GitHubIdle
    /\ listing \in [Sources -> RepollDocuments]
    /\ kv \in [Sources -> {Absent, Stored(<<101>>)}]
    /\ poll = [p \in Instances |-> IdlePoll]
    /\ polls = 0
    /\ attempts = [s \in Sources |-> {}]

\* index.js:156-162: both handlers are called, one after the other, before
\* either is resumed; each runs up to its first await, the fetch
scheduled ==
    /\ polls = 0
    /\ \A p \in CronPolls : poll[p].pc = "idle"
    /\ polls' = polls + Cardinality(Scheduled)
    /\ poll' = [p \in Instances |->
                  IF p \in Scheduled
                  THEN [IdlePoll EXCEPT !.pc = "fetch", !.src = SourceOf(p),
                                        !.atStart = kv[SourceOf(p)]]
                  ELSE poll[p]]
    /\ UNCHANGED <<listing, kv, attempts>>
    /\ UNCHANGED <<dvars, gvars>>

\* the two polls advance in any interleaving of their awaits; Promise.all
\* settles when both have returned
NextScheduled ==
    \/ scheduled
    \/ \E p \in CronPolls, o \in SourceOutcomes : FetchSource(p, o)
    \/ \E p \in CronPolls : ReadSourceText(p)
    \/ \E p \in CronPolls : ParseSource(p)
    \/ \E p \in CronPolls : ReadProcessed(p)
    \/ \E p \in CronPolls : ReadFails(p)
    \/ \E p \in CronPolls, o \in DeliveryOutcomes : Deliver(p, o)
    \/ \E p \in CronPolls : SaveProcessed(p)
    \/ \E p \in CronPolls : SaveFails(p)

SpecScheduled == InitScheduled /\ [][NextScheduled]_vars

\* every fetch, store call and delivery of a started poll completes
FairScheduled == SpecScheduled /\ WF_vars(NextScheduled)

(***************************************************************************)
(* Polls that may be cut short: the runtime ends an invocation between two *)
(* of its awaits, and nothing of the handler runs after that.              *)
(***************************************************************************)
\* the invocation ends where it stands; its locals are gone, the store is
\* as the last completed call left it
Interrupt(p) ==
    /\ poll[p].pc \in {"fetch", "text", "parse", "read", "deliver", "save"}
    /\ poll' = [poll EXCEPT ![p] = IdlePoll]
    /\ attempts' = [attempts EXCEPT ![poll[p].src] =
                       @ \cup { [id |-> poll[p].log[k].id,
                                 outcome |-> poll[p].log[k].outcome,
                                 saved |-> FALSE] :
                               k \in 1..Len(poll[p].log) }]
    /\ UNCHANGED <<listing, kv, polls>>
    /\ UNCHANGED <<dvars, gvars>>

NextInterrupt ==
    \/ \E p \in Pollers, s \in Sources : StartPoll(p, s)
    \/ \E p \in Pollers, o \in SourceOutcomes : FetchSource(p, o)
    \/ \E p \in Pollers : ReadSourceText(p)
    \/ \E p \in Pollers : ParseSource(p)
    \/ \E p \in Pollers : ReadProcessed(p)
    \/ \E p \in Pollers : ReadFails(p)
    \/ \E p \in Pollers, o \in DeliveryOutcomes : Deliver(p, o)
    \/ \E p \in Pollers : SaveProcessed(p)
    \/ \E p \in Pollers : SaveFails(p)
    \/ \E p \in Pollers : FinishRecorded(p)
    \/ \E p \in Pollers : Interrupt(p)

SpecInterrupt == InitRepoll /\ [][NextInterrupt]_vars

(***************************************************************************)
(* Two polls of one source in flight together: two requests of the same    *)
(* route, each an invocation of the handler of its own, interleaved at     *)
(* their awaits.                                                           *)
(***************************************************************************)
\* One source lists a document; its stored list is absent or at the limit.
InitOverlap ==
    /\ DeliverIdle
    /\ \E s \in Sources, doc \in RepollDocuments :
       \E st \in {Absent, Stored(Range(1, KeepLast))} :
          /\ listing = [x \in Sources |-> IF x = s THEN doc ELSE <<>>]
          /\ kv = [x \in Sources |-> IF x = s THEN st ELSE Absent]
    /\ poll = [p \in Instances |-> IdlePoll]
    /\ polls = 0
    /\ attempts = [s \in Sources |-> {}]
    /\ GitHubIdle

\* the requests are those of the route whose source lists the document; a
\* delivery answers or throws (what it answers makes no difference to the
\* list, rss.js:54-61)
NextOverlap ==
    \/ \E p \in Overlapping, s \in Sources :
          listing[s] # <<>> /\ StartPoll(p, s)
    \/ \E p \in Overlapping, o \in SourceOutcomes : FetchSource(p, o)
    \/ \E p \in Overlapping : ReadSourceText(p)
    \/ \E p \in Overlapping : ParseSource(p)
    \/ \E p \in Overlapping : ReadProcessed(p)
    \/ \E p \in Overlapping : ReadFails(p)
    \/ \E p \in Overlapping, o \in {Answered(200), Threw} : Deliver(p, o)
    \/ \E p \in Overlapping : SaveProcessed(p)
    \/ \E p \in Overlapping : SaveFails(p)
    \/ \E p \in Overlapping : FinishRecorded(p)

SpecOverlap == InitOverlap /\ [][NextOverlap]_vars

(***************************************************************************)
(* The calls of postToDiscord the handlers make, each run by postToDiscord *)
(* with the arguments of the call.                                         *)
(***************************************************************************)
\* discord.js:2: maxRetries = 3
DefaultMaxRetries == 3

\* the number a value stands for in attempt <= maxRetries (discord.js:32,
\* 59, 99): null counts as 0 and a Blob as NaN
ToNumber(arg) == IF arg = "null" THEN Num(0) ELSE NaN

\* attempt <= NaN is false for every attempt, as it is with this limit
NoLimit == -2147483647

\* discord.js:2: the third parameter, as the limit the attempts are compared
\* with; the default stands in only for an argument that is not passed
MaxRetriesOf(args) ==
    IF args = <<>> THEN DefaultMaxRetries
    ELSE IF ToNumber(args[1]).nan THEN NoLimit
    ELSE ToNumber(args[1]).value

\* github.js:111, 177, 239, 240, 324, 460, 509, mails.js:21, rss.js:322-798,
\* minecraft.js:281: calls with the webhook and the payload, and
\* github.js:638: the call with artifactFile and artifactFilename; the
\* status is 0 until the call has returned
DeliveryCalls ==
    { Post(to, 0) : to \in {"wiki", "news", "suggestions", "changelog",
                            "issues", "prs", "mails", "fabricblog",
                            "minecraftnews"} }
    \cup { PostWith("workflows", 0, file) :
              file \in {NoFile, BlobFile, UnnamedBlobFile} }

\* a handler has called postToDiscord with a configured webhook
InitCalls ==
    /\ \E call \in DeliveryCalls :
          /\ posts = <<call>>
          /\ maxRetries = MaxRetriesOf(call.args)
    /\ webhookUrl = Url(WebhookPrefix \o <<"123/token">>)
    /\ attempt = 1
    /\ dpc = "validate"
    /\ retryDelay = Num(0)
    /\ fetchCalls = 0
    /\ responses = <<>>
    /\ sleeps = <<>>
    /\ result = NoResult
    /\ listing = [s \in Sources |-> <<>>]
    /\ kv = [s \in Sources |-> Absent]
    /\ poll = [p \in Instances |-> IdlePoll]
    /\ polls = 0
    /\ attempts = [s \in Sources |-> {}]
    /\ event = NoEvent
    /\ gpc = "post"
    /\ gresult = NoResponse
    /\ artifact = NoArtifact

\* the Response of postToDiscord is with the handler
CallReturns ==
    /\ dpc = "done"
    /\ gpc = "post"
    /\ posts' = [posts EXCEPT ![1].status = result.status]
    /\ gpc' = "done"
    /\ UNCHANGED <<event, gresult, artifact>>
    /\ UNCHANGED <<dvars, pvars>>

NextCalls ==
    \/ Validate
    \/ RateLimited
    \/ ErrorResponse
    \/ ErrorDetailsRead
    \/ SuccessResponse
    \/ ResponseDataRead
    \/ FetchThrows
    \/ Backoff
    \/ CallReturns

SpecCalls == InitCalls /\ [][NextCalls]_vars

(***************************************************************************)
(* Polls whose deliveries go to the configured webhook: while its URL does *)
(* not pass the check of postToDiscord every delivery is answered 400; the *)
(* configuration can be put right between two polls.                       *)
(***************************************************************************)
\* config.js: the webhook as the Minecraft documentation ships it (part_002
\* lines 21-27) and a working one
ConfiguredUrls ==
    { Url(WebhookPrefix \o <<"PLACE", "HOLDER", "_ID/", "PLACE", "HOLDER", "_TOKEN">>),
      Url(WebhookPrefix \o <<"123/token">>) }

\* discord.js:4-8: a URL that fails the check gets the 400 Response without
\* a fetch; any other gets what the requests lead to
OutcomesAt(url) ==
    IF InvalidWebhookUrl(url) THEN { Answered(InvalidUrlResult.status) }
                              ELSE DeliveryOutcomes

InitDestination ==
    /\ webhookUrl \in ConfiguredUrls
    /\ maxRetries = DefaultMaxRetries
    /\ attempt = 1
    /\ dpc = "idle"
    /\ retryDelay = Num(0)
    /\ fetchCalls = 0
    /\ responses = <<>>
    /\ sleeps = <<>>
    /\ result = NoResult
    /\ \E s \in Sources, doc \in RepollDocuments, st \in InitialStores :
          /\ listing = [x \in Sources |-> IF x = s THEN doc ELSE <<>>]
          /\ kv = [x \in Sources |-> IF x = s THEN st ELSE Absent]
    /\ poll = [p \in Instances |-> IdlePoll]
    /\ polls = 0
    /\ attempts = [s \in Sources |-> {}]
    /\ GitHubIdle

\* rss.js:52, minecraft.js:52: the item goes to postToDiscord with the
\* configured webhook
DeliverTo(p) == \E o \in OutcomesAt(webhookUrl) : Deliver(p, o)

\* the worker is deployed again with a working webhook in config.js
CorrectDestination ==
    /\ InvalidWebhookUrl(webhookUrl)
    /\ \A p \in Instances : poll[p].pc = "idle"
    /\ webhookUrl' = Url(WebhookPrefix \o <<"123/token">>)
    /\ UNCHANGED <<maxRetries, attempt, dpc, retryDelay, fetchCalls, responses,
                   sleeps, result>>
    /\ UNCHANGED <<pvars, gvars>>

NextDestination ==
    \/ \E p \in Pollers, s \in Sources : StartPoll(p, s)
    \/ \E p \in Pollers, o \in SourceOutcomes : FetchSource(p, o)
    \/ \E p \in Pollers : ReadSourceText(p)
    \/ \E p \in Pollers : ParseSource(p)
    \/ \E p \in Pollers : ReadProcessed(p)
    \/ \E p \in Pollers : ReadFails(p)
    \/ \E p \in Pollers : DeliverTo(p)
    \/ \E p \in Pollers : SaveProcessed(p)
    \/ \E p \in Pollers : SaveFails(p)
    \/ \E p \in Pollers : FinishRecorded(p)
    \/ CorrectDestination

SpecDestination == InitDestination /\ [][NextDestination]_vars

(***************************************************************************)
(* Two polls of one source, the second started after the first has         *)
(* returned, with a stored list at its limit: the first poll's record is   *)
(* kept, so that what its write dropped can be told.                       *)
(***************************************************************************)
\* a source, and a document that still lists the oldest stored id, 1, next
\* to new ids: two of them, or on the articles page twice as many as one
\* run takes, listed before it
EvictionCases ==
    { [src |-> s, doc |-> <<Item(1, TRUE, 1), Item(101, TRUE, 3), Item(102, TRUE, 2)>>] :
        s \in Sources }
    \cup { [src |-> "minecraft",
            doc |-> NewestFirstPage(2 * ArticlesPerRun) \o <<Item(1, TRUE, 1)>>] }

InitEvict ==
    /\ DeliverIdle
    /\ \E c \in EvictionCases :
       \E st \in { Stored(Range(1, KeepLast - 1)), Stored(Range(1, KeepLast)) } :
          /\ listing = [x \in Sources |-> IF x = c.src THEN c.doc ELSE <<>>]
          /\ kv = [x \in Sources |-> IF x = c.src THEN st ELSE Absent]
    /\ poll = [p \in Instances |-> IdlePoll]
    /\ polls = 0
    /\ attempts = [s \in Sources |-> {}]
    /\ GitHubIdle

\* the first request, for the source that lists a document
StartFirst ==
    /\ polls = 0
    /\ \E s \in Sources : listing[s] # <<>> /\ StartPoll("p1", s)

\* the next request of the route arrives after the first has been answered
StartNext ==
    /\ poll["p1"].pc = "done"
    /\ StartPoll("p2", poll["p1"].src)

\* of a delivery only whether it returned, which pushes the id, or threw
\* is told apart
NextEvict ==
    \/ StartFirst
    \/ StartNext
    \/ \E p \in Overlapping, o \in SourceOutcomes : FetchSource(p, o)
    \/ \E p \in Overlapping : ReadSourceText(p)
    \/ \E p \in Overlapping : ParseSource(p)
    \/ \E p \in Overlapping : ReadProcessed(p)
    \/ \E p \in Overlapping : ReadFails(p)
    \/ \E p \in Overlapping, o \in {Answered(200), Threw} : Deliver(p, o)
    \/ \E p \in Overlapping : SaveProcessed(p)
    \/ \E p \in Overlapping : SaveFails(p)

SpecEvict == InitEvict /\ [][NextEvict]_vars

(***************************************************************************)
(* Properties of postToDiscord.                                            *)
(***************************************************************************)
Done == dpc = "done"

\* the body of the last response is being read and nothing is decided yet
ReadingText == dpc = "text" /\ result = NoResult
ReadingJson == dpc = "json" /\ result = NoResult

RateLimit(r) == ~r.threw /\ r.status = 429
ServerError(r) == ~r.threw /\ r.status >= 500
ClientError(r) == ~r.threw /\ r.status >= 400 /\ r.status <= 499 /\ r.status # 429
Transient(r) == r.threw \/ ServerError(r)
Success(r) == ~r.threw /\ r.status >= 200 /\ r.status <= 299

\* calls, responses and sleeps advance together: one call per attempt, one
\* sleep between two consecutive attempts
Lockstep ==
    /\ fetchCalls = Len(responses)
    /\ Len(sleeps) <= fetchCalls
    /\ fetchCalls <= Len(sleeps) + 1

\* C1: a webhook URL that is missing or empty, contains the marker
\* PLACEHOLDER, or does not start with https://discord.com/api/webhooks/
\* leads to no network call, no sleep and no retry, and the invocation
\* resolves at once to a result of status 400.
C1_InvalidUrlBlocksNetwork ==
    ( \/ ~webhookUrl.defined
      \/ Len(webhookUrl.text) = 0
      \/ Includes(webhookUrl.text, PlaceholderMarker)
      \/ ~StartsWith(webhookUrl.text, WebhookPrefix) )
    => /\ fetchCalls = 0
       /\ responses = <<>>
       /\ sleeps = <<>>
       /\ attempt = 1
       /\ dpc \in {"validate", "done"}
       /\ Done => result.status = 400

\* a destination that carries the prefix and the marker has been rejected
C1_Witness ==
    /\ Done
    /\ StartsWith(webhookUrl.text, WebhookPrefix)
    /\ Includes(webhookUrl.text, PlaceholderMarker)
    /\ result.status = 400
    /\ fetchCalls = 0

\* C2: with maxRetries = 2 and every attempt answered 429, the invocation
\* makes exactly 3 network calls and resolves to status 429, not 500.
C2_RetryExhaustionIs429 ==
    ( /\ maxRetries = 2
      /\ \A i \in 1..Len(responses) : RateLimit(responses[i]) )
    => /\ fetchCalls <= 3
       /\ Done /\ responses # <<>> =>
            /\ fetchCalls = 3
            /\ result.status = 429
            /\ result.status # 500

C2_Witness ==
    /\ Done
    /\ maxRetries = 2
    /\ Len(responses) = 3
    /\ \A i \in 1..3 : RateLimit(responses[i])
    /\ result.status = 429

\* C3: whatever the upstream answers (429, 5xx, exceptions, in any mix), an
\* invocation makes at most maxRetries + 1 network calls, and it resolves
\* to a result when every call and every sleep completes.
C3_BoundedCallsAndTermination ==
    /\ [](fetchCalls <= maxRetries + 1)
    /\ <>(Done /\ result.status # 0)

\* all retries were used on a mix of the three retried outcomes
C3_Witness ==
    /\ Done
    /\ maxRetries >= 2
    /\ fetchCalls = maxRetries + 1
    /\ \E i \in 1..Len(responses) : RateLimit(responses[i])
    /\ \E i \in 1..Len(responses) : ServerError(responses[i])
    /\ \E i \in 1..Len(responses) : responses[i].threw

\* C4: a 4xx answer other than 429 ends the invocation: no sleep and no call
\* follows it whatever maxRetries is (exactly one call when it answers the
\* first attempt), and the result has status 500 and carries the upstream
\* status and the body read from the response (the status text when the
\* body cannot be read).
C4_ClientErrorNotRetried ==
    \A i \in 1..Len(responses) :
        ClientError(responses[i])
        => /\ i = Len(responses)
           /\ fetchCalls = i
           /\ Len(sleeps) = i - 1
           /\ Done \/ ReadingText
           /\ Done =>
                /\ result.status = 500
                /\ result.kind = "Discord Webhook Error"
                /\ result.upstreamStatus = responses[i].status
                /\ result.details =
                     IF responses[i].body = "stream-error"
                     THEN "statusText" ELSE responses[i].body

\* a client error on the first attempt although retries were allowed
C4_Witness ==
    /\ Done
    /\ maxRetries >= 1
    /\ fetchCalls = 1
    /\ sleeps = <<>>
    /\ ClientError(responses[1])
    /\ result.status = 500
    /\ result.upstreamStatus = 404

\* C5: a 5xx answer or an exception of fetch is retried while a retry is
\* left; when the last attempt ends that way with the retries used up, the
\* result has status 500 (never 429), carries the upstream status and body
\* or the exception's message, and maxRetries + 1 calls were made.
C5_TransientRetriedThenGenericFailure ==
    \A i \in 1..Len(responses) :
        Transient(responses[i])
        => /\ i <= maxRetries =>
                /\ ~(Done /\ i = Len(responses))
                /\ i = Len(responses) =>
                     \/ ReadingText /\ ~responses[i].threw
                     \/ dpc = "sleep"
                     \/ dpc = "fetch" /\ Len(sleeps) = i /\ attempt = i + 1
           /\ Done /\ i = Len(responses) =>
                /\ fetchCalls = maxRetries + 1
                /\ result.status = 500
                /\ result.status # 429
                /\ responses[i].threw =>
                     /\ result.kind = "Discord posting failed"
                     /\ result.details = "error.message"
                /\ ~responses[i].threw =>
                     /\ result.kind = "Discord Webhook Error"
                     /\ result.upstreamStatus = responses[i].status
                     /\ result.details =
                          IF responses[i].body = "stream-error"
                          THEN "statusText" ELSE responses[i].body

\* retries were used on both kinds and the last attempt threw
C5_Witness ==
    /\ Done
    /\ maxRetries >= 1
    /\ fetchCalls = maxRetries + 1
    /\ ServerError(responses[1])
    /\ responses[Len(responses)].threw
    /\ result.status = 500

\* the whole number of seconds a retry-after value states, for a value that
\* is a decimal numeral
DecimalDigits == {"0", "1", "2", "3", "4", "5", "6", "7", "8", "9"}
IsNumeral(s) == s # <<>> /\ \A k \in 1..Len(s) : s[k] \in DecimalDigits
RECURSIVE DecimalValue(_)
DecimalValue(s) ==
    IF s = <<>> THEN 0
    ELSE 10 * DecimalValue(SubSeq(s, 1, Len(s) - 1)) + DigitValue(s[Len(s)])
Seconds(s) == DecimalValue(s)

\* a number of seconds as a header states it: a numeral, with or without a
\* fraction of up to three digits
PointAt(s) ==
    IF \E k \in 1..Len(s) : s[k] = "."
    THEN CHOOSE k \in 1..Len(s) : s[k] = "." /\ \A j \in 1..(k - 1) : s[j] # "."
    ELSE Len(s) + 1
IsSeconds(s) ==
    /\ IsNumeral(SubSeq(s, 1, PointAt(s) - 1))
    /\ PointAt(s) <= Len(s) =>
          /\ IsNumeral(SubSeq(s, PointAt(s) + 1, Len(s)))
          /\ Len(s) - PointAt(s) <= 3

\* the milliseconds in that number of seconds
Milliseconds(s) ==
    LET fraction == SubSeq(s, PointAt(s) + 1, Len(s))
    IN  1000 * DecimalValue(SubSeq(s, 1, PointAt(s) - 1))
        + DecimalValue(fraction) * 10 ^ (3 - Len(fraction))

\* C6: after a 429 that carries a retry-after hint of N seconds, with a
\* retry left, the invocation sleeps exactly N seconds (not 2^attempt) and
\* then makes one further network call.
C6_RetryAfterHintHonoured ==
    /\ Lockstep
    /\ \A i \in 1..Len(responses) :
          ( /\ RateLimit(responses[i])
            /\ responses[i].retryAfter # NoHeader
            /\ IsSeconds(responses[i].retryAfter[1])
            /\ i <= maxRetries )
          => /\ ~(Done /\ i = Len(responses))
             /\ i = Len(responses) /\ dpc = "sleep" =>
                  retryDelay = Num(Milliseconds(responses[i].retryAfter[1]))
             /\ i <= Len(sleeps) =>
                  sleeps[i] = Num(Milliseconds(responses[i].retryAfter[1]))

\* C6 for a hint that is a whole number of seconds: the sleep is exactly
\* that long and one further call follows.
C6_WholeSecondsHonoured ==
    /\ Lockstep
    /\ \A i \in 1..Len(responses) :
          ( /\ RateLimit(responses[i])
            /\ responses[i].retryAfter # NoHeader
            /\ IsNumeral(responses[i].retryAfter[1])
            /\ i <= maxRetries )
          => /\ ~(Done /\ i = Len(responses))
             /\ i = Len(responses) /\ dpc = "sleep" =>
                  retryDelay = Num(1000 * Seconds(responses[i].retryAfter[1]))
             /\ i <= Len(sleeps) =>
                  sleeps[i] = Num(1000 * Seconds(responses[i].retryAfter[1]))

\* C7: a 2xx answer ends the invocation with status 200 and success = true
\* and no further call; the data is null for 204, the body when it parses
\* as JSON, and null when it does not parse, which is no failure.
C7_SuccessAndParseFailure ==
    \A i \in 1..Len(responses) :
        Success(responses[i])
        => /\ i = Len(responses)
           /\ fetchCalls = i
           /\ Done \/ (ReadingJson /\ responses[i].status # 204)
           /\ Done =>
                /\ result.status = 200
                /\ result.success
                /\ result.discordResponse =
                     IF responses[i].status = 204 THEN "null"
                     ELSE IF responses[i].body = "json-object" THEN "json-object"
                     ELSE "null"

\* a 200 whose body does not parse still resolved to success with null data
C7_Witness ==
    /\ Done
    /\ responses # <<>>
    /\ responses[Len(responses)].status = 200
    /\ responses[Len(responses)].body = "not-json"
    /\ result.status = 200
    /\ result.success
    /\ result.discordResponse = "null"

(***************************************************************************)
(* Properties of the polls.                                                *)
(***************************************************************************)
\* the ids one poll pushed: those of the deliveries that answered
RECURSIVE PushedIds(_)
PushedIds(log) ==
    IF log = <<>> THEN <<>>
    ELSE IF Head(log).outcome.threw THEN PushedIds(Tail(log))
         ELSE <<Head(log).id>> \o PushedIds(Tail(log))

\* the positions of a document whose entries handleRSS finds new
NewPositions(doc, storedIds) ==
    { k \in 1..Len(doc) :
        /\ doc[k].titled /\ doc[k].id # 0 /\ doc[k].published # 0
        /\ \A n \in 1..Len(storedIds) : storedIds[n] # doc[k].id }

\* C8: an id that is in the stored list when a poll starts (of either
\* source) is not handed to the delivery by that poll.
C8_ProcessedIdsNotRedelivered ==
    \A p \in Pollers :
        \A k \in 1..Len(poll[p].log) :
            \A n \in 1..Len(poll[p].atStart.ids) :
                poll[p].atStart.ids[n] # poll[p].log[k].id

\* a second poll of a document that lists 101 and 102: 101 was stored by
\* the first poll and is skipped, 102 is delivered
C8_Witness ==
    \E p \in Pollers :
        /\ polls = 2
        /\ poll[p].pc = "done"
        /\ poll[p].status = 200
        /\ IncludesId(poll[p].atStart.ids, 101)
        /\ \E k \in 1..Len(listing[poll[p].src]) : listing[poll[p].src][k].id = 101
        /\ Len(poll[p].log) = 1
        /\ poll[p].log[1].id = 102

\* C9: one poll, of either source, hands its new items to the delivery in
\* ascending order of published, whatever the order of the document.
C9_ChronologicalDelivery ==
    \A p \in Pollers :
        \A i, j \in 1..Len(poll[p].log) :
            i < j => poll[p].log[i].published <= poll[p].log[j].published

\* C9 for the feed alone: one poll of the feed hands its new entries to the
\* delivery in ascending order of published, whatever the order of the
\* document, and it hands over every new entry.
C9_FeedChronologicalDelivery ==
    \A p \in Pollers :
        poll[p].src = "rss"
        => /\ \A i, j \in 1..Len(poll[p].log) :
                i < j => poll[p].log[i].published <= poll[p].log[j].published
           /\ poll[p].pc = "save" \/ poll[p].wrote =>
                LET new == NewPositions(listing["rss"], poll[p].atStart.ids)
                IN  /\ Len(poll[p].log) = Cardinality(new)
                    /\ \A k \in new :
                          \E i \in 1..Len(poll[p].log) :
                              /\ poll[p].log[i].id = listing["rss"][k].id
                              /\ poll[p].log[i].published = listing["rss"][k].published

\* C10: the stored list of either source never exceeds 100 ids; a poll that
\* has written leaves the list it read followed by the ids it pushed, cut
\* to the last 100 of them (the oldest are dropped first).
C10_StoredListBounded ==
    /\ \A s \in Sources : Len(kv[s].ids) <= 100
    /\ \A p \in Pollers :
          poll[p].wrote
          => LET all == poll[p].atStart.ids \o PushedIds(poll[p].log)
                 now == kv[poll[p].src]
             IN  /\ now.present
                 /\ Len(now.ids) = IF Len(all) > 100 THEN 100 ELSE Len(all)
                 /\ \A k \in 1..Len(now.ids) :
                        now.ids[k] = all[Len(all) - Len(now.ids) + k]

\* a full list took two more ids: 1 and 2 were dropped, 102 is the newest
C10_Witness ==
    \E p \in Pollers :
        /\ poll[p].wrote
        /\ Len(poll[p].atStart.ids) = 100
        /\ Len(kv[poll[p].src].ids) = 100
        /\ kv[poll[p].src].ids[1] = 3
        /\ kv[poll[p].src].ids[99] = 101
        /\ kv[poll[p].src].ids[100] = 102

\* where the text that is read as one article ends when it begins at
\* element b: at the first element with a heading that is, or comes after,
\* an element with a link; 0 when there is none
MatchEnd(doc, b) ==
    LET ends == { e \in b..Len(doc) :
                    doc[e].heading /\ \E j \in b..e : doc[j].id # 0 }
    IN  IF ends = {} THEN 0
        ELSE CHOOSE e \in ends : \A x \in ends : e <= x

\* the elements at which such a text begins, from s on: s itself and the
\* one after the end of each text
RECURSIVE MatchStarts(_, _)
MatchStarts(doc, s) ==
    IF s > Len(doc) THEN {}
    ELSE IF MatchEnd(doc, s) = 0 THEN {s}
         ELSE {s} \cup MatchStarts(doc, MatchEnd(doc, s) + 1)

\* the element the text that holds element k begins with, 0 when k is in
\* none
MatchOf(doc, k) ==
    LET starts == { s \in MatchStarts(doc, 1) : s <= k /\ MatchEnd(doc, s) >= k }
    IN  IF starts = {} THEN 0 ELSE CHOOSE s \in starts : TRUE

\* the positions of a page that carry the URL of an article: the first link
\* of a text whose heading has a title, when that link is to an article.
\* (This is how a page is read on which some text is an article.)
ArticlePositions(doc) ==
    LET starts == MatchStarts(doc, 1)
    IN  { k \in 1..Len(doc) :
            /\ doc[k].article
            /\ \E s \in starts :
                  /\ s <= k /\ MatchEnd(doc, s) >= k
                  /\ \A i \in s..(k - 1) : doc[i].id = 0
                  /\ doc[MatchEnd(doc, s)].titled }

\* the publication time of the article whose URL is at k: of the times its
\* text states, the first of the markup looked for first
PublishedAt(doc, k) ==
    LET s      == MatchOf(doc, k)
        marked == { i \in s..MatchEnd(doc, s) : doc[i].dated # 0 }
        best   == CHOOSE i \in marked :
                     \A x \in marked :
                        \/ doc[i].dated < doc[x].dated
                        \/ doc[i].dated = doc[x].dated /\ i <= x
    IN  IF marked = {} THEN 0 ELSE doc[best].published

\* the positions of a page whose articles handleMinecraftNews finds new: an
\* article URL, first of its URL on the page, not stored
NewArticlePositions(doc, storedIds) ==
    LET articles == ArticlePositions(doc)
    IN  { k \in articles :
            /\ \A j \in articles : j < k => doc[j].id # doc[k].id
            /\ \A n \in 1..Len(storedIds) : storedIds[n] # doc[k].id }

\* C11: a poll of the articles page that finds more new articles than the
\* cap of 5 hands exactly 5 of them to the delivery, and these are the 5
\* oldest by publication time: no new article left out is older than one
\* that was delivered.
C11_CapDeliversOldest ==
    \A p \in Pollers :
        ( /\ poll[p].src = "minecraft"
          /\ poll[p].pc = "save" \/ poll[p].wrote )
        => LET doc == listing["minecraft"]
               new == NewArticlePositions(doc, poll[p].atStart.ids)
               delivered == { k \in new :
                                \E i \in 1..Len(poll[p].log) :
                                    poll[p].log[i].id = doc[k].id }
           IN  Cardinality(new) > ArticlesPerRun
               => /\ Len(poll[p].log) = ArticlesPerRun
                  /\ Cardinality(delivered) = ArticlesPerRun
                  /\ \A k \in delivered : \A u \in new \ delivered :
                        PublishedAt(doc, k) <= PublishedAt(doc, u)

\* C11, the part on the number alone: with more new articles than the cap,
\* exactly 5 are handed to the delivery.
C11_CapRespected ==
    \A p \in Pollers :
        ( /\ poll[p].src = "minecraft"
          /\ poll[p].pc = "save" \/ poll[p].wrote )
        => LET new == NewArticlePositions(listing["minecraft"], poll[p].atStart.ids)
           IN  /\ Len(poll[p].log) <= ArticlesPerRun
               /\ Cardinality(new) > ArticlesPerRun
                  => Len(poll[p].log) = ArticlesPerRun

\* a delivery call that returned a Response with a status other than 200
FailedResult(outcome) == ~outcome.threw /\ outcome.status # 200

\* C12 as stated: the id of every item whose delivery returned a result,
\* 200 or not, is appended to the processed list, and a delivery that
\* returned a failure is never attempted again by a later poll.
C12_FailedNeverReattempted ==
    \A p \in Pollers :
        /\ \A k \in 1..Len(poll[p].log) :
              ~poll[p].log[k].outcome.threw
              => IncludesId(poll[p].processed, poll[p].log[k].id)
        /\ poll[p].src \in Sources =>
              \A k \in 1..Len(poll[p].log) : \A h \in attempts[poll[p].src] :
                  ~(h.id = poll[p].log[k].id /\ FailedResult(h.outcome))

\* C12, amended: the id of every item whose delivery returned a result,
\* 200 or not, is appended to the processed list and is in the stored list
\* once the poll has written it; a later poll attempts a failed delivery
\* again only if the poll that made it did not write the list.
C12_FailedDeliveryMarkedProcessed ==
    \A p \in Pollers :
        /\ \A k \in 1..Len(poll[p].log) :
              ~poll[p].log[k].outcome.threw
              => /\ IncludesId(poll[p].processed, poll[p].log[k].id)
                 /\ poll[p].wrote => IncludesId(kv[poll[p].src].ids, poll[p].log[k].id)
        /\ poll[p].src \in Sources =>
              \A k \in 1..Len(poll[p].log) : \A h \in attempts[poll[p].src] :
                  h.id = poll[p].log[k].id /\ FailedResult(h.outcome) => ~h.saved

\* the first poll got a failure for 101 and wrote the list; the second poll
\* of the same document delivered 102 and left 101 alone
C12_Witness ==
    \E p \in Pollers :
        /\ poll[p].pc = "done"
        /\ poll[p].status = 200
        /\ \E h \in attempts[poll[p].src] :
              h.id = 101 /\ FailedResult(h.outcome) /\ h.saved
        /\ \E k \in 1..Len(listing[poll[p].src]) : listing[poll[p].src][k].id = 101
        /\ IncludesId(poll[p].atStart.ids, 101)
        /\ Len(poll[p].log) = 1
        /\ poll[p].log[1].id = 102

\* C13: when the fetch of the document fails, by a response that is not ok
\* or by an exception, the poll ends at once: no item is handed to the
\* delivery, the stored list is not written and is the one the poll
\* started with, and the Response has status 500.
C13_FetchFailureAborts ==
    \A p \in Pollers :
        poll[p].fetched \in {"not-ok", "throws"}
        => /\ poll[p].pc = "done"
           /\ poll[p].log = <<>>
           /\ ~poll[p].wrote
           /\ kv[poll[p].src] = poll[p].atStart
           /\ poll[p].status = 500

\* the feed lists a new entry, the fetch answered with a response that is
\* not ok, and the poll has ended with 500
C13_Witness ==
    \E p \in Pollers :
        /\ poll[p].pc = "done"
        /\ poll[p].src = "rss"
        /\ poll[p].fetched = "not-ok"
        /\ poll[p].status = 500
        /\ NewPositions(listing["rss"], poll[p].atStart.ids) # {}
        /\ kv["rss"] = poll[p].atStart

(***************************************************************************)
(* Properties of the GitHub webhook.                                       *)
(***************************************************************************)
\* C14: for a published release both messages are posted, news first and
\* changelog second, the second whatever the first returned; the Response
\* has status 200 only if both posts returned 200, and is the partial
\* failure with status 500 otherwise.
C14_ReleasePartialFailure ==
    /\ gpc = "changelog" =>
          /\ Len(posts) = 1
          /\ posts[1].to = "news"
    /\ gpc = "done" /\ Route(event) = "handleRelease" =>
          /\ Len(posts) = 2
          /\ posts[1].to = "news"
          /\ posts[2].to = "changelog"
          /\ ~gresult.threw
          /\ gresult.status = 200 <=> posts[1].status = 200 /\ posts[2].status = 200
          /\ gresult.status # 200 =>
                gresult.status = 500 /\ gresult.text = "Partial failure"

\* the news post failed, the changelog post was still made and returned 200,
\* and the Response is the partial failure
C14_Witness ==
    /\ gpc = "done"
    /\ Route(event) = "handleRelease"
    /\ posts = <<Post("news", 500), Post("changelog", 200)>>
    /\ gresult.status = 500
    /\ gresult.text = "Partial failure"

\* the webhooks a handler posts to
WebhooksOf(handler) ==
    IF handler = "handleWiki" THEN {"wiki"}
    ELSE IF handler = "handleDiscussion" THEN {"news", "suggestions"}
    ELSE IF handler = "handleWorkflowRun" THEN {"workflows"}
    ELSE IF handler = "handleRelease" THEN {"news", "changelog"}
    ELSE IF handler = "handlePullRequest" THEN {"prs"}
    ELSE IF handler \in {"handleIssue", "handleFork"} THEN {"issues"}
    ELSE {}

\* the shapes and actions the webhook handles
Recognized(e) ==
    \/ e.pages \notin {"absent", "not-array"}
    \/ e.discussion # "absent" /\ e.action = "created"
    \/ e.workflow_run # "absent" /\ e.action = "completed"
    \/ e.release /\ e.action = "published"
    \/ e.issue # "absent" /\ e.action = "opened"
    \/ /\ e.pull_request # "absent"
       /\ e.action \in {"opened", "ready_for_review", "review_requested",
                         "reopened", "synchronize"}
    \/ e.forkee /\ e.repository

\* every event goes to exactly one handler or is answered by the router
\* itself, with Ignored, status 200 and no post; an event of no handled
\* shape or action is answered that way
RoutedOrIgnored ==
    /\ ~Recognized(event) =>
          /\ gpc \in {"route", "done"}
          /\ gpc = "done" =>
                /\ gresult = Responded("handleGitHubWebhook", 200, "Ignored")
                /\ posts = <<>>
    /\ gpc \in Handlers => gpc = Route(event) /\ posts = <<>>
    /\ gpc = "done" =>
          /\ gresult.by = IF Route(event) \in Handlers
                          THEN Route(event) ELSE "handleGitHubWebhook"
          /\ \A k \in 1..Len(posts) : posts[k].to \in WebhooksOf(Route(event))
          /\ gresult.by = "handleGitHubWebhook" =>
                /\ ~gresult.threw
                /\ gresult.status = 200
                /\ gresult.text = "Ignored"
                /\ posts = <<>>

\* C15 as stated: every event is routed to exactly one handler or answered
\* Ignored with status 200, and an event that leads to no post (a shape or
\* action that is not handled) never ends in an error status or an
\* exception.
C15_RouterTotal ==
    event \in Events =>
        /\ RoutedOrIgnored
        /\ gpc = "done" /\ posts = <<>> => ~gresult.threw /\ gresult.status = 200

\* C15 with the one refusal the tests of the repository expect left out, the
\* 400 of handleWiki for an empty pages array: every other event that
\* leads to no post ends with status 200 and no exception.
C15_RouterTotalButEmptyWiki ==
    event \in Events =>
        /\ RoutedOrIgnored
        /\ gpc = "done" /\ posts = <<>> =>
              \/ ~gresult.threw /\ gresult.status = 200
              \/ /\ gresult = Responded("handleWiki", 400, "Invalid wiki data")
                 /\ event.pages = "empty"

(***************************************************************************)
(* Properties of the scheduled trigger.                                    *)
(***************************************************************************)
\* what one scheduled poll has to show for itself, whatever the other does:
\* its status follows from its own failure alone, it has handed over its
\* own new items, and the list under its own key is the one it started
\* with until it writes its own
OwnOutcome(p) ==
    LET s == SourceOf(p)
        mine == ToProcess(s, FilterNew(Parse(s, listing[s]), readFromKV(poll[p].atStart)))
    IN  /\ poll[p].src = s
        /\ poll[p].pc = "done" =>
              /\ poll[p].status = 500 <=> poll[p].thrown # "none"
              /\ poll[p].status = 200 <=> poll[p].thrown = "none"
              /\ poll[p].thrown \in {"none", "save"} =>
                    /\ Len(poll[p].log) = Len(mine)
                    /\ \A k \in 1..Len(mine) : poll[p].log[k].id = mine[k].id
        /\ kv[s] = IF poll[p].wrote
                   THEN Stored(SliceLast(poll[p].atStart.ids \o PushedIds(poll[p].log),
                                         KeepLast))
                   ELSE poll[p].atStart

\* C16: the scheduled trigger starts both polls together; a failure of one
\* (a failed fetch, an exception of the store, failed deliveries) does not
\* keep the other from starting or from running to its end, and what each
\* poll delivers, stores and answers follows from its own source alone.
C16_ScheduledPollsIsolated ==
    /\ []( polls > 0 =>
             /\ \A p \in CronPolls : poll[p].pc # "idle"
             /\ \A p \in CronPolls : OwnOutcome(p) )
    /\ <>(\A p \in CronPolls : poll[p].pc = "done")

\* the poll of the feed failed at the fetch and answered 500; the poll of
\* the articles page delivered two articles, one of them with a failure,
\* wrote its list and answered 200
C16_Witness ==
    /\ poll["cronRss"].pc = "done"
    /\ poll["cronRss"].thrown = "fetch"
    /\ poll["cronRss"].status = 500
    /\ NewPositions(listing["rss"], poll["cronRss"].atStart.ids) # {}
    /\ poll["cronMinecraft"].pc = "done"
    /\ poll["cronMinecraft"].status = 200
    /\ poll["cronMinecraft"].wrote
    /\ Len(poll["cronMinecraft"].log) = 2
    /\ poll["cronMinecraft"].log[1].outcome = Answered(500)

(***************************************************************************)
(* Further properties of the polls.                                        *)
(***************************************************************************)
\* C17: a document that lists the same new id twice has that id handed to
\* the delivery once by a poll: no two delivery calls of one poll carry
\* the same id.
C17_NoDuplicateWithinRun ==
    \A p \in Pollers :
        \A i, j \in 1..Len(poll[p].log) :
            i # j => poll[p].log[i].id # poll[p].log[j].id

\* C17 for the articles page alone, whose parser takes each URL once
C17_ArticlesOncePerRun ==
    \A p \in Pollers :
        poll[p].src = "minecraft"
        => \A i, j \in 1..Len(poll[p].log) :
              i # j => poll[p].log[i].id # poll[p].log[j].id

\* a delivery that did not succeed: a Response other than 200, or an
\* exception
FailedDelivery(outcome) == outcome.threw \/ outcome.status # 200

\* C18: failed deliveries do not end a poll: whatever the deliveries return
\* or throw, the loop goes on to the last selected item, the list is
\* written, and unless the store throws the poll answers 200 and reports
\* the number of selected items.
C18_ItemFailuresDoNotEscalate ==
    \A p \in Pollers :
        /\ poll[p].pc = "deliver" => Len(poll[p].log) < Len(poll[p].toProcess)
        /\ poll[p].pc = "save" => Len(poll[p].log) = Len(poll[p].toProcess)
        /\ poll[p].pc = "done" /\ poll[p].log # <<>> =>
              /\ Len(poll[p].log) = Len(poll[p].toProcess)
              /\ poll[p].thrown \in {"none", "save"}
              /\ poll[p].thrown = "none" =>
                    /\ poll[p].wrote
                    /\ poll[p].status = 200
                    /\ poll[p].count = Len(poll[p].log)

\* three deliveries, the first answered 500 and the others threw; the list
\* was written and the poll answered 200 for 3 items
C18_Witness ==
    \E p \in Pollers :
        /\ poll[p].pc = "done"
        /\ Len(poll[p].log) = 3
        /\ poll[p].log[1].outcome = Answered(500)
        /\ poll[p].log[2].outcome = Threw
        /\ poll[p].log[3].outcome = Threw
        /\ poll[p].wrote
        /\ poll[p].status = 200
        /\ poll[p].count = 3

\* C19: an exception of the store ends the poll with status 500: when the
\* read of the list throws, no item has been handed to the delivery and
\* nothing is written; when the write throws, the deliveries have been
\* made and the stored list is the one the poll started with.
C19_StoreFailureEscalates ==
    \A p \in Pollers :
        /\ poll[p].thrown = "read" =>
              /\ poll[p].pc = "done"
              /\ poll[p].status = 500
              /\ poll[p].log = <<>>
              /\ ~poll[p].wrote
              /\ kv[poll[p].src] = poll[p].atStart
        /\ poll[p].thrown = "save" =>
              /\ poll[p].pc = "done"
              /\ poll[p].status = 500
              /\ poll[p].log # <<>>
              /\ ~poll[p].wrote
              /\ kv[poll[p].src] = poll[p].atStart

\* the read of the list threw while the feed listed a new entry: status
\* 500 and no delivery
C19_Witness ==
    \E p \in Pollers :
        /\ poll[p].pc = "done"
        /\ poll[p].thrown = "read"
        /\ poll[p].fetched = "ok"
        /\ poll[p].entries # <<>>
        /\ poll[p].status = 500
        /\ poll[p].log = <<>>

\* C20: a poll that finds no new item (the document lists nothing that
\* parses, or every id it lists is stored) hands nothing to the delivery,
\* does not write the list, and answers 200.
C20_NoNewItemsIsNoOp ==
    \A p \in Pollers :
        ( /\ poll[p].pc \in {"deliver", "save", "done"}
          /\ poll[p].fetched = "ok"
          /\ poll[p].thrown \notin {"text", "read"}
          /\ FilterNew(Parse(poll[p].src, listing[poll[p].src]),
                       readFromKV(poll[p].atStart)) = <<>> )
        => /\ poll[p].pc = "done"
           /\ poll[p].log = <<>>
           /\ ~poll[p].wrote
           /\ kv[poll[p].src] = poll[p].atStart
           /\ poll[p].thrown = "none"
           /\ poll[p].status = 200

\* every id the document lists was stored by the poll before: the second
\* poll answered 200 with no delivery and no write
C20_Witness ==
    \E p \in Pollers :
        /\ polls = 2
        /\ poll[p].pc = "done"
        /\ poll[p].status = 200
        /\ poll[p].entries # <<>>
        /\ \A k \in 1..Len(poll[p].entries) :
              IncludesId(poll[p].atStart.ids, poll[p].entries[k].id)
        /\ IncludesId(poll[p].atStart.ids, 102)
        /\ poll[p].log = <<>>
        /\ ~poll[p].wrote

\* the ids of a sequence of items
IdsOf(items) == { items[k].id : k \in 1..Len(items) }

\* C21: within one poll the list is read once, before any delivery: the
\* list in memory is the list read followed by the ids pushed. The store
\* is written by no step but the one that follows the last delivery, at
\* most once per poll, so during the loop it holds what the poll started
\* with. A poll cut short inside the loop leaves the stored list as it
\* was, and the next poll hands the items already sent to the delivery
\* again.
C21_ReadOnceWriteOnceAtEnd ==
    /\ [](\A p \in Pollers :
            /\ poll[p].pc \in {"deliver", "save"} =>
                  /\ poll[p].processed =
                        readFromKV(poll[p].atStart) \o PushedIds(poll[p].log)
                  /\ kv[poll[p].src] = poll[p].atStart
                  /\ ~poll[p].wrote
                  /\ \A h \in attempts[poll[p].src] :
                        ( /\ ~h.saved
                          /\ ~IncludesId(poll[p].atStart.ids, h.id) )
                        => h.id \in IdsOf(poll[p].toProcess)
            /\ poll[p].wrote =>
                  /\ poll[p].pc = "done"
                  /\ Len(poll[p].log) = Len(poll[p].toProcess))
    /\ [][\A s \in Sources :
            kv'[s] # kv[s]
            => \E p \in Pollers :
                  /\ poll[p].src = s
                  /\ poll[p].pc = "save"
                  /\ ~poll[p].wrote
                  /\ poll'[p].pc = "done"
                  /\ poll'[p].wrote]_vars

\* a poll was cut short after 101 had been delivered with success and
\* before 102; the store still has no list, and the next poll has handed
\* 101 to the delivery again
C21_Witness ==
    \E p \in Pollers :
        /\ polls = 2
        /\ poll[p].src \in Sources
        /\ [id |-> 101, outcome |-> Answered(200), saved |-> FALSE]
              \in attempts[poll[p].src]
        /\ \A h \in attempts[poll[p].src] : h.id = 101
        /\ Len(listing[poll[p].src]) = 2
        /\ ~poll[p].atStart.present
        /\ poll[p].pc = "deliver"
        /\ Len(poll[p].log) = 1
        /\ poll[p].log[1].id = 101


\* C22: articles the cap of a run left out are not lost, and each following
\* poll takes the oldest remaining articles first.  In the form a finite run
\* settles: an article the cap left out is not in the list the poll writes
\* (so the next poll finds it new), and a poll that follows another one hands
\* over its articles oldest first and leaves out none that is older than one
\* it handed over.
C22_LeftoversTakenOldestFirst ==
    \A p \in Pollers :
        ( /\ poll[p].src = "minecraft"
          /\ poll[p].pc = "save" \/ poll[p].wrote )
        => LET doc == listing["minecraft"]
               log == poll[p].log
               new == NewArticlePositions(doc, poll[p].atStart.ids)
               taken == { k \in new : \E i \in 1..Len(log) : log[i].id = doc[k].id }
           IN  /\ poll[p].wrote
                  => \A k \in new \ taken : ~IncludesId(kv["minecraft"].ids, doc[k].id)
               /\ polls > 1
                  => /\ \A i, j \in 1..Len(log) :
                           i < j => log[i].published <= log[j].published
                     /\ \A k \in taken : \A u \in new \ taken :
                           PublishedAt(doc, k) <= PublishedAt(doc, u)


\* a failure whose retry is not governed by a retry-after hint: a 429
\* without the header (or with an empty one), a 5xx, an exception of fetch
Unhinted(r) ==
    \/ Transient(r)
    \/ RateLimit(r) /\ (r.retryAfter = NoHeader \/ r.retryAfter = Header(<<>>))

\* C23: the wait before the k-th retry that follows a failure without a
\* retry-after hint is exactly 2^k seconds (2 s, 4 s, 8 s), whatever the
\* kinds of the failures of the attempts before it.
C23_BackoffDoublesPerAttempt ==
    /\ Lockstep
    /\ \A k \in 1..Len(sleeps) :
          Unhinted(responses[k]) => sleeps[k] = Num(1000 * (2 ^ k))
    /\ dpc = "sleep" /\ Unhinted(responses[Len(responses)])
          => retryDelay = Num(1000 * (2 ^ Len(responses)))

\* three retries after an exception, a 5xx and a 429 without hint waited
\* 2 s, 4 s and 8 s
C23_Witness ==
    /\ Len(sleeps) = 3
    /\ responses[1].threw
    /\ ServerError(responses[2])
    /\ RateLimit(responses[3]) /\ responses[3].retryAfter = NoHeader
    /\ sleeps = <<Num(2000), Num(4000), Num(8000)>>


\* a delivery call for id at source s returned a Response, in a poll that
\* has ended or in one that is running
AttemptAnswered(s, id) ==
    \/ \E h \in attempts[s] : h.id = id /\ ~h.outcome.threw
    \/ \E p \in Instances :
          /\ poll[p].src = s
          /\ \E k \in 1..Len(poll[p].log) :
                poll[p].log[k].id = id /\ ~poll[p].log[k].outcome.threw

\* both polls of source s started from the same stored list and read it
ReadTogether(s) ==
    \A p \in Overlapping :
        /\ poll[p].src = s
        /\ poll[p].pc \in {"deliver", "save", "done"}
        /\ poll[p].thrown = "none"
        /\ poll[p].atStart = poll["p1"].atStart

\* C24: of two polls of one source that overlap, each writes the list it
\* read plus the ids it pushed, so the later write replaces the earlier one
\* and merges nothing: an id of the earlier write that the later poll
\* neither read nor pushed is gone; an item can then be delivered twice, but the stored
\* list never holds the id of a listed item no delivery call was answered
\* for, so no listed item is withheld from delivery.
C24_OverlapOnlyDuplicates ==
    /\ [](\A s \in Sources : \A k \in 1..Len(listing[s]) :
             IncludesId(kv[s].ids, listing[s][k].id)
             => AttemptAnswered(s, listing[s][k].id))
    /\ [](\A p \in Overlapping :
             poll[p].pc \in {"deliver", "save"}
             => LET pushed == PushedIds(poll[p].log)
                    n == Len(poll[p].processed) - Len(pushed)
                IN  n >= 0 /\ SubSeq(poll[p].processed, n + 1, n + Len(pushed)) = pushed)
    /\ [][\A p \in Overlapping :
             poll[p].pc = "save" /\ poll'[p].wrote
             => /\ kv'[poll[p].src].ids = SliceLast(poll[p].processed, KeepLast)
                /\ \A n \in 1..Len(kv[poll[p].src].ids) :
                      ~IncludesId(poll[p].processed, kv[poll[p].src].ids[n])
                      => ~IncludesId(kv'[poll[p].src].ids, kv[poll[p].src].ids[n])]_vars

\* both polls read an empty list; p1 delivered 101 and wrote it; p2, whose
\* delivery of 101 threw, delivered 102 and wrote last: 101 is gone from the
\* stored list, and 102 was delivered by both polls
C24_Witness ==
    /\ \E s \in Sources :
          /\ ReadTogether(s)
          /\ kv[s] = Stored(<<102>>)
    /\ \A p \in Overlapping : poll[p].wrote
    /\ poll["p1"].log[1].id = 101 /\ poll["p1"].log[1].outcome = Answered(200)
    /\ poll["p1"].log[2].id = 102 /\ poll["p1"].log[2].outcome = Answered(200)
    /\ poll["p2"].log[1].id = 101 /\ poll["p2"].log[1].outcome = Threw
    /\ poll["p2"].log[2].id = 102 /\ poll["p2"].log[2].outcome = Answered(200)


(***************************************************************************)
(* Properties of handleWorkflowRun and of the calls of postToDiscord.      *)
(***************************************************************************)
\* the event is a completed run that was not skipped: handleWorkflowRun
\* builds a message for it
RunReported ==
    /\ Route(event) = "handleWorkflowRun"
    /\ event.workflow_run \in {"success", "failure"}

\* the names and the outcomes of the requests made for the artifact
CallNames == [k \in 1..Len(artifact.calls) |-> artifact.calls[k].call]
LastOutcome == artifact.calls[Len(artifact.calls)].outcome

\* C25: for a completed run with conclusion success and a token, the
\* artifacts are listed, then the first one is downloaded (its URL asked
\* for, then the file read), all before the message is posted; without a
\* token or with another conclusion no request is made; a step that fails
\* or finds nothing is the last request; the message goes to the workflows
\* webhook exactly once, and without a file unless the download gave one
\* (the file goes without a name when the artifact has none).
C25_ArtifactStepsThenOnePost ==
    RunReported =>
        /\ \/ CallNames = <<>>
           \/ CallNames = <<"list">>
           \/ CallNames = <<"list", "redirect">>
           \/ CallNames = <<"list", "redirect", "storage">>
        /\ gpc # "done" => posts = <<>>
        /\ ~(event.workflow_run = "success" /\ artifact.token)
              => CallNames = <<>>
        /\ ( /\ event.workflow_run = "success" /\ artifact.token
             /\ gpc \in {"readArtifactList", "downloadArtifact",
                         "downloadFromStorage", "readArtifactBlob",
                         "postWorkflowRun", "done"} )
              => CallNames # <<>>
        /\ gpc \in {"postWorkflowRun", "done"} /\ CallNames # <<>>
              => /\ LastOutcome # "ok"
                 /\ Len(CallNames) = 1 => LastOutcome \notin {"some", "unnamed"}
                 /\ Len(CallNames) = 2 => LastOutcome # "redirect"
                 /\ Len(CallNames) >= 2 =>
                       artifact.calls[1].outcome \in {"some", "unnamed"}
                 /\ Len(CallNames) = 3 =>
                       artifact.calls[2].outcome = "redirect"
        /\ gpc = "done" =>
              /\ Len(posts) = 1
              /\ posts[1].to = "workflows"
              /\ gresult = Posted("handleWorkflowRun", posts[1].status)
              /\ posts[1].args[1] = "blob"
                    <=> Len(CallNames) = 3 /\ LastOutcome = "blob"
              /\ posts[1].args[1] # "blob" => posts[1].args = NoFile
              /\ posts[1].args[1] = "blob" =>
                    posts[1].args = IF artifact.calls[1].outcome = "some"
                                    THEN BlobFile ELSE UnnamedBlobFile

\* the list named an artifact, its URL was given, reading it from the
\* storage failed: three requests, then one post without a file
C25_Witness ==
    /\ RunReported
    /\ gpc = "done"
    /\ CallNames = <<"list", "redirect", "storage">>
    /\ LastOutcome = "not-ok"
    /\ posts = <<PostWith("workflows", 200, NoFile)>>


\* C26: every call of postToDiscord a handler makes runs with the default
\* budget of 3 retries, so a first attempt that ends in a 429, a 5xx or an
\* exception of fetch is followed by a retry and is not reported.
C26_HandlersUseDefaultBudget ==
    ( /\ fetchCalls = 1
      /\ RateLimit(responses[1]) \/ Transient(responses[1]) )
    => /\ maxRetries = DefaultMaxRetries
       /\ ~Done


\* every delivery call the log holds for id threw
OnlyThrew(log, id) ==
    /\ \E k \in 1..Len(log) : log[k].id = id
    /\ \A k \in 1..Len(log) : log[k].id = id => log[k].outcome.threw

\* C27: an item whose handling throws does not get its id appended: the
\* list of a poll is the list it read followed by the ids of the deliveries
\* that returned.  The items after it are still handled, the list is still
\* written and the poll answers 200; the id is not in the written list, and
\* the next poll selects the item again.
C27_ThrownItemStaysNew ==
    \A p \in Pollers :
        /\ poll[p].pc \in {"deliver", "save"} \/ poll[p].log # <<>>
           => poll[p].processed
                 = readFromKV(poll[p].atStart) \o PushedIds(poll[p].log)
        /\ poll[p].pc \in {"save", "done"} /\ poll[p].log # <<>>
           => Len(poll[p].log) = Len(poll[p].toProcess)
        /\ poll[p].pc = "done" /\ poll[p].log # <<>> /\ poll[p].thrown = "none"
           => /\ poll[p].wrote
              /\ poll[p].status = 200
              /\ \A k \in 1..Len(poll[p].log) :
                    OnlyThrew(poll[p].log, poll[p].log[k].id)
                    => ~IncludesId(kv[poll[p].src].ids, poll[p].log[k].id)
        /\ poll[p].pc \in {"deliver", "save"}
           => \A h \in attempts[poll[p].src] :
                 h.outcome.threw /\ ~IncludesId(poll[p].atStart.ids, h.id)
                 => h.id \in IdsOf(poll[p].toProcess)

\* the first poll handled 101, which threw, and then 102, wrote the list
\* and answered 200; the second poll has selected 101 again and not 102
C27_Witness ==
    \E p \in Pollers :
        /\ poll[p].src \in Sources
        /\ [id |-> 101, outcome |-> Threw, saved |-> TRUE] \in attempts[poll[p].src]
        /\ [id |-> 102, outcome |-> Answered(200), saved |-> TRUE]
              \in attempts[poll[p].src]
        /\ poll[p].pc = "save"
        /\ IdsOf(poll[p].toProcess) = {101}
        /\ poll[p].atStart = Stored(<<102>>)


\* a delivery call that the check of the webhook URL answered
Rejected(outcome) == outcome = Answered(InvalidUrlResult.status)

\* C28 as stated: with a webhook that fails the check, the poll appends the
\* id of every selected item and persists the list, and no later poll hands
\* such an item to the delivery again, whether or not the webhook has been
\* put right.
C28_RejectedNeverSentLater ==
    \A p \in Pollers :
        /\ \A k \in 1..Len(poll[p].log) :
              Rejected(poll[p].log[k].outcome)
              => /\ IncludesId(poll[p].processed, poll[p].log[k].id)
                 /\ poll[p].pc = "done"
                       => IncludesId(kv[poll[p].src].ids, poll[p].log[k].id)
        /\ poll[p].src \in Sources =>
              \A k \in 1..Len(poll[p].log) : \A h \in attempts[poll[p].src] :
                  ~(h.id = poll[p].log[k].id /\ Rejected(h.outcome))

\* C28, amended: with a webhook that fails the check, the poll appends the
\* id of every selected item, and the list it writes holds them; a later
\* poll hands such an item to the delivery again only if its id is not in
\* the stored list when that poll reads it: the poll that got the 400 did
\* not write the list, or the list was cut to its last 100 ids since.
C28_RejectedMarkedProcessed ==
    \A p \in Pollers :
        /\ \A k \in 1..Len(poll[p].log) :
              Rejected(poll[p].log[k].outcome)
              => /\ InvalidWebhookUrl(webhookUrl)
                 /\ IncludesId(poll[p].processed, poll[p].log[k].id)
                 /\ poll[p].wrote
                       => IncludesId(kv[poll[p].src].ids, poll[p].log[k].id)
        /\ poll[p].src \in Sources =>
              \A k \in 1..Len(poll[p].log) : \A h \in attempts[poll[p].src] :
                  h.id = poll[p].log[k].id /\ Rejected(h.outcome)
                  => /\ ~IncludesId(poll[p].atStart.ids, h.id)
                     /\ h.saved => Len(poll[p].atStart.ids) = KeepLast

\* the first poll got the 400 for 101 and for 102 and wrote the list; the
\* webhook was put right; the second poll found nothing new
C28_Witness ==
    \E p \in Pollers :
        /\ poll[p].src \in Sources
        /\ [id |-> 101, outcome |-> Answered(400), saved |-> TRUE]
              \in attempts[poll[p].src]
        /\ [id |-> 102, outcome |-> Answered(400), saved |-> TRUE]
              \in attempts[poll[p].src]
        /\ ~InvalidWebhookUrl(webhookUrl)
        /\ poll[p].pc = "done"
        /\ poll[p].status = 200
        /\ poll[p].log = <<>>
        /\ IncludesId(poll[p].atStart.ids, 101)


\* the response of the last attempt
LastResponse == responses[Len(responses)]

\* C29: every invocation of postToDiscord comes to a result, and the status
\* of the result is 200, 400, 429 or 500: 200 only after a 2xx response, 400
\* only for a webhook URL that fails the check (and then without a call),
\* 429 only when the last attempt was answered 429 with no retry left, and
\* 500 for every other failure.
C29_ResultStatusIsOneOfFour ==
    /\ [](Done =>
            /\ result.status \in {200, 400, 429, 500}
            /\ result.status = 200
                  => responses # <<>> /\ Success(LastResponse)
            /\ result.status = 400
                  => InvalidWebhookUrl(webhookUrl) /\ fetchCalls = 0
            /\ result.status = 429
                  => /\ responses # <<>>
                     /\ RateLimit(LastResponse)
                     /\ fetchCalls = maxRetries + 1
            /\ ( /\ responses # <<>>
                 /\ ~Success(LastResponse)
                 /\ ~RateLimit(LastResponse) )
                  => result.status = 500)
    /\ <>Done

\* a 429 was retried and the second attempt was answered 404: the result
\* has status 500
C29_Witness ==
    /\ Done
    /\ fetchCalls = 2
    /\ RateLimit(responses[1])
    /\ responses[2].status = 404
    /\ result.status = 500


\* the write of the first poll dropped id from the stored list, and the
\* next poll has made its selection: the first poll read the id and wrote,
\* and the next poll has read a list without it
Evicted(id) ==
    /\ poll["p1"].wrote
    /\ IncludesId(poll["p1"].atStart.ids, id)
    /\ poll["p2"].pc \in {"deliver", "save", "done"}
    /\ poll["p2"].thrown \in {"none", "save"}
    /\ ~IncludesId(poll["p2"].atStart.ids, id)

\* the ids the document of the polled source lists
ListedIds ==
    IF poll["p1"].src \in Sources
    THEN IdsOf(listing[poll["p1"].src])
    ELSE {}

\* no poll hands over an id that is in the stored list it started from
StoredNotDelivered ==
    \A p \in Overlapping : \A k \in 1..Len(poll[p].log) :
        ~IncludesId(poll[p].atStart.ids, poll[p].log[k].id)

\* C30: an id that a poll's write drops from the list while the source
\* still lists it is new to the next poll, which selects it for delivery
\* and, once its loop has ended, has handed it over; an id that is in the
\* stored list is handed over by no later poll.
C30_EvictedDeliveredByNextPoll ==
    /\ \A id \in ListedIds :
          Evicted(id)
          => /\ id \in IdsOf(poll["p2"].toProcess)
             /\ poll["p2"].pc \in {"save", "done"}
                   => \E k \in 1..Len(poll["p2"].log) : poll["p2"].log[k].id = id
    /\ StoredNotDelivered

\* C30 for the feed, which has no cap: the evicted id is selected and
\* handed over by the next poll.
C30_FeedEvictedDeliveredByNextPoll ==
    poll["p1"].src = "rss" => C30_EvictedDeliveredByNextPoll

====
